---- MODULE Spec2Model ----
(***************************************************************************)
(* A model of the queue package of kerimovok/go-pkg-utils: the retry       *)
(* policy (queue/retry.go), the Producer (queue/producer.go) and the       *)
(* Consumer (queue/consumer.go) with their close watchers and reconnect    *)
(* routines, against an AMQP broker.                                       *)
(*                                                                         *)
(* One client is modelled per behaviour; `kind` says whether it is a       *)
(* Producer or a Consumer.  Connections are numbered by generation: the    *)
(* constructor dials generation InitialGen, every successful Dial of a     *)
(* reconnect routine takes the next one.  Channel g is the channel opened  *)
(* on connection g.                                                        *)
(***************************************************************************)
EXTENDS Integers, Sequences, FiniteSets, TLC

(***************************************************************************)
(* Bounds of the model.                                                    *)
(***************************************************************************)
MaxOutages == 1
MaxFails == 1
MaxMsgs == 1
MaxPublishes == 1
MaxStarts == 1
MaxCloses == 1
MaxShift == 70
NumWorkers == 3

(***************************************************************************)
(* 64-bit two's complement integers (Go's int64 / time.Duration), as       *)
(* little-endian tuples of Limbs bytes.  Go's * wraps modulo 2^64.         *)
(***************************************************************************)
Limbs == 8
LimbBase == 256

RECURSIVE Pow(_, _)
Pow(b, e) == IF e = 0 THEN 1 ELSE b * Pow(b, e - 1)

\* int64(n) for 0 <= n < 2^31
ToI64(n) ==
    [i \in 1..Limbs |-> IF i <= 4 THEN (n \div Pow(LimbBase, i - 1)) % LimbBase ELSE 0]

RECURSIVE ColSum(_, _, _, _)
ColSum(a, b, k, i) ==
    IF i > k THEN 0 ELSE a[i] * b[k + 1 - i] + ColSum(a, b, k, i + 1)

RECURSIVE MulFrom(_, _, _, _)
MulFrom(a, b, k, carry) ==
    IF k > Limbs THEN <<>>
    ELSE LET s == ColSum(a, b, k, 1) + carry
         IN  <<s % LimbBase>> \o MulFrom(a, b, k + 1, s \div LimbBase)

\* a * b on int64: the low 64 bits of the product
Mul64(a, b) == MulFrom(a, b, 1, 0)

\* time.Duration(1 << n) for n >= 0: bit n, and 0 once n >= 64
Shl1(n) ==
    [i \in 1..Limbs |-> IF n < 8 * Limbs /\ i = (n \div 8) + 1 THEN Pow(2, n % 8) ELSE 0]

IsNeg64(a) == a[Limbs] >= LimbBase \div 2

RECURSIVE ULess(_, _, _)
ULess(a, b, i) ==
    IF i = 0 THEN FALSE
    ELSE IF a[i] # b[i] THEN a[i] < b[i]
    ELSE ULess(a, b, i - 1)

\* a < b on int64 (signed)
Less64(a, b) ==
    IF IsNeg64(a) # IsNeg64(b) THEN IsNeg64(a) ELSE ULess(a, b, Limbs)

\* time.Second, in nanoseconds
Second == ToI64(1000000000)

Seconds(n) == Mul64(ToI64(n), Second)

(***************************************************************************)
(* retry.go: the retry policy.                                             *)
(***************************************************************************)
RetryConfigs ==
    { [MaxRetries |-> 3, RetryDelayBase |-> 1, MaxRetryDelay |-> 60],
      [MaxRetries |-> 3, RetryDelayBase |-> 5, MaxRetryDelay |-> 5],
      [MaxRetries |-> 0, RetryDelayBase |-> 1, MaxRetryDelay |-> 60] }

\* A header value: absent, or a Go value with its dynamic type.
NoHeader == [type |-> "absent", val |-> 0]
GoInt(v) == [type |-> "int", val |-> v]
GoInt32(v) == [type |-> "int32", val |-> v]
GoInt64(v) == [type |-> "int64", val |-> v]
\* msg.Headers == nil
NilHeaders == [type |-> "nil_table", val |-> 0]

\* A header table is modelled in two parts: hdr, the field x-retry-count (or
\* its absence, or the absence of the table), and extra, the other entries
\* as <<key, value>> pairs.

\* Headers the publisher of a message set on it.
CustomHeaders == {<<"trace-id", "t1">>}

\* newHeaders["x-last-error"] = err.Error() and newHeaders["x-last-retry"] =
\* time.Now().Unix(): the handler's error text and the clock's reading.
NewRetryExtra == {<<"x-last-error", "err">>, <<"x-last-retry", "now">>}

\* The entries of the header table of a message, delivery or publishing.
Entries(m) ==
    m.extra \cup (IF m.hdr.type \in {"absent", "nil_table"}
                  THEN {} ELSE {<<"x-retry-count", m.hdr>>})

GetRetryCount(hdr) ==
    IF hdr.type = "int32" THEN hdr.val ELSE 0

\* CalculateRetryDelay without the exponential factor: a constant delay of
\* RetryDelayBase seconds under the cap.  C9 tells the two apart.
CalculateRetryDelayConstant(retryCount, config) ==
    LET delay == Mul64(ToI64(config.RetryDelayBase), Second)
        cap == Seconds(config.MaxRetryDelay)
    IN  IF Less64(cap, delay) THEN cap ELSE delay

CalculateRetryDelay(retryCount, config) ==
    LET delay == Mul64(Mul64(ToI64(config.RetryDelayBase), Shl1(retryCount)), Second)
        cap == Seconds(config.MaxRetryDelay)
    IN  IF Less64(cap, delay) THEN cap ELSE delay

(***************************************************************************)
(* State.                                                                  *)
(***************************************************************************)
VARIABLES
    kind,         \* "producer" or "consumer": the client of this behaviour
    retryConfig,  \* Consumer.retryConfig
    conn,         \* the client's conn pointer: a generation
    channel,      \* the client's channel pointer: a generation
    connOpen,     \* connOpen[g]: connection g is open (!IsClosed())
    chanOpen,     \* chanOpen[g]: channel g is open
    nextGen,      \* the generation the next successful Dial returns
    mu,           \* the client's RWMutex: "free" or the task holding it
    wpc,          \* wpc[w]: where watcher goroutine w is
    rnew,         \* rnew[w]: the conn/ch locals of w's reconnect attempt
    outages,      \* broker-side closes so far
    fails,        \* failed dial / channel-open / setup steps so far
    down,         \* a broker close was notified and no swap happened since
    consuming,    \* Consumer.consuming
    stopped,      \* Consumer.stopChan is closed
    stopCloses,   \* how many times close(c.stopChan) was executed
    cpc,          \* cpc[c]: where the Close() of caller c is
    starts,       \* StartConsuming calls made by the caller
    closes,       \* closes[c]: Close calls made by caller c
    lpc,          \* lpc[l]: where consumeLoop goroutine l is
    lch,          \* lch[l]: the channel local of consumeLoop l
    qos,          \* the channels on which Qos(1, 0, false) succeeded
    queue,        \* the main queue: messages ready for delivery
    tasks,        \* the processMessage goroutines that have not returned
    retries,      \* the ScheduleRetry goroutines still sleeping
    mtrace,       \* mtrace[id]: what was done with message id, in order
    ppc,          \* where the caller's Publish is
    pch,          \* the channel local of Publish
    pubResult,    \* what the last Publish returned
    published,    \* messages the broker accepted from Publish
    pubs,         \* Publish calls made by the caller
    pcall,        \* the arguments of the Publish call that is running
    plog,         \* the Publish calls that returned, in order
    dRc,          \* the retryCount CalculateRetryDelay was last applied to
    dOut,         \* CalculateRetryDelay(dRc, retryConfig)
    dPrev,        \* CalculateRetryDelay(dRc - 1, retryConfig)
    qc,           \* the queue Config handed to the constructor
    npc,          \* where NewProducer / NewConsumer is
    ops,          \* the broker operations SetupAllQueues issued, in order
    setupErr,     \* what SetupAllQueues returned
    nres,         \* what the constructor returned
    poolArg,      \* the maxConcurrent NewWorkerPool was called with
    slotsCap,     \* cap(p.slots) of the WorkerPool, 0 before NewWorkerPool
    slots,        \* len(p.slots): the values buffered in the channel
    slotsClosed,  \* p.slots was closed
    wkpc,         \* wkpc[w]: where worker goroutine w is
    gpc,          \* gpc[g]: the lock operation goroutine g is at, 0 outside
    muWriter,     \* the goroutine that holds c.mu for writing
    muReaders,    \* the goroutines that hold c.mu for reading
    muWaiting     \* the goroutines blocked in c.mu.Lock()

cfgVars == <<kind, retryConfig>>
netVars == <<conn, channel, connOpen, chanOpen, nextGen, mu, wpc, rnew, outages, fails, down>>
consVars == <<consuming, stopped, stopCloses, cpc, starts, closes>>
loopVars == <<lpc, lch, qos>>
msgVars == <<queue, tasks, retries, mtrace>>
prodVars == <<ppc, pch, pubResult, published, pubs, pcall, plog>>
delayVars == <<dRc, dOut, dPrev>>
setupVars == <<qc, npc, ops, setupErr, nres>>
poolVars == <<poolArg, slotsCap, slots, slotsClosed, wkpc>>
lockVars == <<gpc, muWriter, muReaders, muWaiting>>
vars == <<cfgVars, netVars, consVars, loopVars, msgVars, prodVars, delayVars, setupVars, poolVars, lockVars>>

InitialGen == 1
MaxGen == MaxFails + 3
Gens == InitialGen..MaxGen
NoGen == 0

Watchers == {"connWatcher", "chanWatcher"}

\* The goroutines of the application that call Close(): the caller, and
\* another one calling it concurrently.
Caller == "caller"
Closers == {Caller, "other"}
Loops == 1..(MaxCloses + 1)
MsgIds == 1..MaxMsgs

\* The messages of the behaviours that start with one message more, so
\* that a second delivery can arrive while the first is in its handler.
AllMsgIds == 1..(MaxMsgs + 1)

\* The generation whose NotifyClose the two watcher goroutines range over:
\* setupConnectionRecovery runs once, from the constructor.
WatchedGen == InitialGen

(***************************************************************************)
(* The connection and channel objects of the AMQP library.                 *)
(***************************************************************************)
Net == [co |-> connOpen, ch |-> chanOpen, wp |-> wpc]

\* ch.Close() by the client: a graceful close ends the channel's NotifyClose
\* stream without an error, so a watcher ranging over it leaves its loop.
ChannelClose(n, g) ==
    IF ~n.ch[g] THEN n
    ELSE [n EXCEPT !.ch[g] = FALSE,
                   !.wp = [w \in Watchers |->
                             IF w = "chanWatcher" /\ n.wp[w] = "watch" /\ WatchedGen = g
                             THEN "exit" ELSE n.wp[w]]]

\* conn.Close() by the client: closes the connection and its channel.
ConnClose(n, g) ==
    IF ~n.co[g] THEN n
    ELSE [n EXCEPT !.co[g] = FALSE, !.ch[g] = FALSE,
                   !.wp = [w \in Watchers |->
                             IF n.wp[w] = "watch" /\ WatchedGen = g
                             THEN "exit" ELSE n.wp[w]]]

\* The broker (or the network) closes connection g: both NotifyClose streams
\* deliver an error, and each watcher that receives it calls reconnect().
BrokerConnClose(n, g) ==
    [n EXCEPT !.co[g] = FALSE, !.ch[g] = FALSE,
              !.wp = [w \in Watchers |->
                        IF n.wp[w] = "watch" /\ WatchedGen = g
                        THEN "rc_close" ELSE n.wp[w]]]

\* The broker closes channel g alone (a channel exception).
BrokerChanClose(n, g) ==
    [n EXCEPT !.ch[g] = FALSE,
              !.wp = [w \in Watchers |->
                        IF w = "chanWatcher" /\ n.wp[w] = "watch" /\ WatchedGen = g
                        THEN "rc_close" ELSE n.wp[w]]]

SetNet(n) ==
    /\ connOpen' = n.co
    /\ chanOpen' = n.ch
    /\ wpc' = n.wp

\* IsConnected without the channel test.  C3 tells the two apart.
IsConnectedConnOnly ==
    conn # NoGen /\ connOpen[conn]

IsConnected ==
    conn # NoGen /\ connOpen[conn] /\ channel # NoGen /\ chanOpen[channel]

\* The health check Publish makes under the read lock.
PublishUnavailable ==
    conn = NoGen \/ ~connOpen[conn] \/ channel = NoGen \/ ~chanOpen[channel]

\* The health check consumeLoop makes under the read lock.
LoopUnavailable ==
    conn = NoGen \/ ~connOpen[conn] \/ channel = NoGen \/ ~chanOpen[channel]

\* 1 << retryCount panics at run time when retryCount is negative; a panic in
\* a processMessage goroutine, which nothing recovers, ends the process.
NegativeShift(retryCount) == retryCount < 0

Panicked ==
    \E id \in AllMsgIds : \E i \in DOMAIN mtrace[id] : mtrace[id][i].op = "panic"

(***************************************************************************)
(* The broker closing the client's connection or channel.                  *)
(***************************************************************************)
BrokerCloseConn ==
    /\ outages < MaxOutages
    /\ connOpen[conn]
    /\ SetNet(BrokerConnClose(Net, conn))
    /\ outages' = outages + 1
    /\ down' = TRUE
    /\ UNCHANGED <<conn, channel, nextGen, mu, rnew, fails>>
    /\ UNCHANGED <<cfgVars, consVars, loopVars, msgVars, prodVars, delayVars, setupVars, poolVars, lockVars>>

BrokerCloseChannel ==
    /\ outages < MaxOutages
    /\ chanOpen[channel]
    /\ SetNet(BrokerChanClose(Net, channel))
    /\ outages' = outages + 1
    /\ down' = TRUE
    /\ UNCHANGED <<conn, channel, nextGen, mu, rnew, fails>>
    /\ UNCHANGED <<cfgVars, consVars, loopVars, msgVars, prodVars, delayVars, setupVars, poolVars, lockVars>>

(***************************************************************************)
(* reconnect(), run by the watcher goroutine w that received an error.     *)
(***************************************************************************)
\* reconnect() keeping the lock over its sleep and its attempt.  C6 tells
\* the two apart.
ReconnectCloseKeepsLock(w) ==
    /\ wpc[w] = "rc_close"
    /\ mu = "free"
    /\ LET n == ConnClose(ChannelClose(Net, channel), conn)
       IN  SetNet([n EXCEPT !.wp[w] = "rc_dial"])
    /\ mu' = w
    /\ UNCHANGED <<conn, channel, nextGen, rnew, outages, fails, down>>
    /\ UNCHANGED <<cfgVars, consVars, loopVars, msgVars, prodVars, delayVars, setupVars, poolVars, lockVars>>

\* Lock; close c.channel and c.conn, errors ignored; Unlock; then Sleep.
ReconnectClose(w) ==
    /\ wpc[w] = "rc_close"
    /\ mu = "free"
    /\ LET n == ConnClose(ChannelClose(Net, channel), conn)
       IN  SetNet([n EXCEPT !.wp[w] = "rc_dial"])
    /\ mu' = "free"
    /\ UNCHANGED <<conn, channel, nextGen, rnew, outages, fails, down>>
    /\ UNCHANGED <<cfgVars, consVars, loopVars, msgVars, prodVars, delayVars, setupVars, poolVars, lockVars>>

\* reconnect() returning after its first failed attempt.  C5 tells the two
\* apart.
ReconnectAttemptGivesUp(w) ==
    /\ wpc[w] = "rc_dial"
    /\ \/ /\ nextGen <= MaxGen
          /\ rnew' = [rnew EXCEPT ![w] = nextGen]
          /\ connOpen' = [connOpen EXCEPT ![nextGen] = TRUE]
          /\ chanOpen' = [chanOpen EXCEPT ![nextGen] = TRUE]
          /\ nextGen' = nextGen + 1
          /\ wpc' = [wpc EXCEPT ![w] = "rc_swap"]
          /\ UNCHANGED fails
       \/ /\ fails < MaxFails
          /\ fails' = fails + 1
          /\ wpc' = [wpc EXCEPT ![w] = "exit"]
          /\ UNCHANGED <<rnew, connOpen, chanOpen, nextGen>>
    /\ UNCHANGED <<conn, channel, mu, outages, down>>
    /\ UNCHANGED <<cfgVars, consVars, loopVars, msgVars, prodVars, delayVars, setupVars, poolVars, lockVars>>

\* One attempt after the sleep: amqp.Dial, conn.Channel() and
\* c.config.SetupAllQueues(ch) on the new connection, which no other
\* goroutine can reach yet.  A failed step closes what the attempt opened
\* and continues at the top of the loop; there is no attempt limit.
ReconnectAttempt(w) ==
    /\ wpc[w] = "rc_dial"
    /\ \/ \* all three steps succeed
          /\ nextGen <= MaxGen
          /\ rnew' = [rnew EXCEPT ![w] = nextGen]
          /\ connOpen' = [connOpen EXCEPT ![nextGen] = TRUE]
          /\ chanOpen' = [chanOpen EXCEPT ![nextGen] = TRUE]
          /\ nextGen' = nextGen + 1
          /\ wpc' = [wpc EXCEPT ![w] = "rc_swap"]
          /\ UNCHANGED fails
       \/ \* Dial fails
          /\ fails < MaxFails
          /\ fails' = fails + 1
          /\ wpc' = [wpc EXCEPT ![w] = "rc_close"]
          /\ UNCHANGED <<rnew, connOpen, chanOpen, nextGen>>
       \/ \* Dial succeeds, then Channel() or SetupAllQueues fails: the new
          \* channel (if any) and the new connection are closed
          /\ fails < MaxFails
          /\ nextGen <= MaxGen
          /\ fails' = fails + 1
          /\ nextGen' = nextGen + 1
          /\ wpc' = [wpc EXCEPT ![w] = "rc_close"]
          /\ UNCHANGED <<rnew, connOpen, chanOpen>>
    /\ UNCHANGED <<conn, channel, mu, outages, down>>
    /\ UNCHANGED <<cfgVars, consVars, loopVars, msgVars, prodVars, delayVars, setupVars, poolVars, lockVars>>

\* Lock; c.conn = conn; c.channel = ch; wasConsuming := c.consuming; Unlock.
\* The Consumer then restarts consumption if wasConsuming; reconnect returns
\* and the watcher's range ends, its NotifyClose stream being closed.
ReconnectSwap(w) ==
    /\ wpc[w] = "rc_swap"
    /\ mu = "free"
    /\ conn' = rnew[w]
    /\ channel' = rnew[w]
    /\ rnew' = [rnew EXCEPT ![w] = NoGen]
    /\ wpc' = [wpc EXCEPT ![w] =
                 IF kind = "consumer" /\ consuming THEN "rc_restart" ELSE "exit"]
    /\ down' = FALSE
    /\ mu' = "free"
    /\ UNCHANGED <<connOpen, chanOpen, nextGen, outages, fails>>
    /\ UNCHANGED <<cfgVars, consVars, loopVars, msgVars, prodVars, delayVars, setupVars, poolVars, lockVars>>

(***************************************************************************)
(* Consumer: StartConsuming, Close and the consume loop.                   *)
(***************************************************************************)

\* The body of StartConsuming: under the lock, return if already consuming,
\* else set the flag and start a consumeLoop goroutine.
StartConsumingBody ==
    /\ mu = "free"
    /\ IF consuming
       THEN UNCHANGED <<consuming, lpc>>
       ELSE /\ \E l \in Loops : lpc[l] = "none"
            /\ consuming' = TRUE
            /\ LET l == CHOOSE f \in Loops :
                            lpc[f] = "none" /\ \A k \in Loops : k < f => lpc[k] # "none"
               IN  lpc' = [lpc EXCEPT ![l] = "top"]
    /\ mu' = "free"

StartConsuming ==
    /\ kind = "consumer"
    /\ starts < MaxStarts
    /\ starts' = starts + 1
    /\ StartConsumingBody
    /\ UNCHANGED <<stopped, stopCloses, cpc, closes, lch, qos>>
    /\ UNCHANGED <<conn, channel, connOpen, chanOpen, nextGen, wpc, rnew, outages, fails, down>>
    /\ UNCHANGED <<cfgVars, msgVars, prodVars, delayVars, setupVars, poolVars, lockVars>>

\* The goroutine reconnect() starts when wasConsuming: it calls StartConsuming.
ReconnectRestart(w) ==
    /\ wpc[w] = "rc_restart"
    /\ StartConsumingBody
    /\ wpc' = [wpc EXCEPT ![w] = "exit"]
    /\ UNCHANGED <<stopped, stopCloses, cpc, starts, closes, lch, qos>>
    /\ UNCHANGED <<conn, channel, connOpen, chanOpen, nextGen, rnew, outages, fails, down>>
    /\ UNCHANGED <<cfgVars, msgVars, prodVars, delayVars, setupVars, poolVars, lockVars>>

\* Consumer.Close, first section: Lock; consuming = false; Unlock.
ConsumerCloseFlag(c) ==
    /\ kind = "consumer"
    /\ cpc[c] = "idle"
    /\ closes[c] < MaxCloses
    /\ mu = "free"
    /\ consuming' = FALSE
    /\ cpc' = [cpc EXCEPT ![c] = "signal"]
    /\ closes' = [closes EXCEPT ![c] = @ + 1]
    /\ UNCHANGED <<stopped, stopCloses, starts>>
    /\ UNCHANGED <<cfgVars, netVars, loopVars, msgVars, prodVars, delayVars, setupVars, poolVars, lockVars>>

\* Close() closing stopChan without the Once.  C19 tells the two apart.
ConsumerCloseSignalNoOnce(c) ==
    /\ cpc[c] = "signal"
    /\ stopped' = TRUE
    /\ stopCloses' = stopCloses + 1
    /\ cpc' = [cpc EXCEPT ![c] = "sleep"]
    /\ UNCHANGED <<consuming, starts, closes>>
    /\ UNCHANGED <<cfgVars, netVars, loopVars, msgVars, prodVars, delayVars, setupVars, poolVars, lockVars>>

\* stopOnce.Do(func() { close(c.stopChan) }), then the 100 ms sleep: the
\* function runs in the first Do only.
ConsumerCloseSignal(c) ==
    /\ cpc[c] = "signal"
    /\ stopped' = TRUE
    /\ stopCloses' = IF stopped THEN stopCloses ELSE stopCloses + 1
    /\ cpc' = [cpc EXCEPT ![c] = "sleep"]
    /\ UNCHANGED <<consuming, starts, closes>>
    /\ UNCHANGED <<cfgVars, netVars, loopVars, msgVars, prodVars, delayVars, setupVars, poolVars, lockVars>>

\* channel.Close() then conn.Close() under the lock; an error from
\* channel.Close() is returned before conn.Close() is reached.
CloseBoth(n) ==
    IF ~n.ch[channel] THEN n ELSE ConnClose(ChannelClose(n, channel), conn)

ConsumerCloseConns(c) ==
    /\ cpc[c] = "sleep"
    /\ mu = "free"
    /\ SetNet(CloseBoth(Net))
    /\ cpc' = [cpc EXCEPT ![c] = "idle"]
    /\ mu' = "free"
    /\ UNCHANGED <<consuming, stopped, stopCloses, starts, closes>>
    /\ UNCHANGED <<conn, channel, nextGen, rnew, outages, fails, down>>
    /\ UNCHANGED <<cfgVars, loopVars, msgVars, prodVars, delayVars, setupVars, poolVars, lockVars>>

\* consumeLoop without the stop check at the top of the outer loop.  C20
\* tells the two apart.
LoopCheckIgnoresStop(l) ==
    /\ lpc[l] = "top"
    /\ mu = "free"
    /\ IF LoopUnavailable
       THEN UNCHANGED <<lpc, lch>>
       ELSE lpc' = [lpc EXCEPT ![l] = "subscribe"] /\ lch' = [lch EXCEPT ![l] = channel]
    /\ UNCHANGED qos
    /\ UNCHANGED <<cfgVars, netVars, consVars, msgVars, prodVars, delayVars, setupVars, poolVars, lockVars>>

\* Top of the outer loop: the stop check, then the health check under RLock.
\* An unhealthy connection means Sleep and continue: the loop is at the top
\* again.
LoopCheck(l) ==
    /\ lpc[l] = "top"
    /\ mu = "free"
    /\ IF stopped
       THEN lpc' = [lpc EXCEPT ![l] = "done"] /\ UNCHANGED lch
       ELSE IF LoopUnavailable
       THEN UNCHANGED <<lpc, lch>>
       ELSE lpc' = [lpc EXCEPT ![l] = "subscribe"] /\ lch' = [lch EXCEPT ![l] = channel]
    /\ UNCHANGED qos
    /\ UNCHANGED <<cfgVars, netVars, consVars, msgVars, prodVars, delayVars, setupVars, poolVars, lockVars>>

\* channel.Qos(1, 0, false), then channel.Consume(queue, "", false, ...) on
\* the channel read under the lock; an error of either means Sleep and
\* continue.
LoopSubscribe(l) ==
    /\ lpc[l] = "subscribe"
    /\ IF chanOpen[lch[l]]
       THEN qos' = qos \cup {lch[l]} /\ lpc' = [lpc EXCEPT ![l] = "inner"]
       ELSE UNCHANGED qos /\ lpc' = [lpc EXCEPT ![l] = "top"]
    /\ UNCHANGED lch
    /\ UNCHANGED <<cfgVars, netVars, consVars, msgVars, prodVars, delayVars, setupVars, poolVars, lockVars>>

\* The deliveries a consumer holds unsettled on its channel.
Unsettled(l) == {t \in tasks : t.l = l /\ t.ch = lch[l] /\ ~t.settled}

\* Inner select, case msg, ok := <-msgs with ok: go c.processMessage(msg).
\* With prefetch 1 the broker pushes a message only while the consumer
\* holds no unsettled delivery.
LoopReceive(l, m) ==
    /\ ~Panicked
    /\ lpc[l] = "inner"
    /\ chanOpen[lch[l]]
    /\ m \in queue
    /\ lch[l] \in qos => Unsettled(l) = {}
    /\ queue' = queue \ {m}
    /\ tasks' = tasks \cup {[id |-> m.id, hdr |-> m.hdr, extra |-> m.extra, body |-> m.body, l |-> l, ch |-> lch[l],
                             pc |-> "new", settled |-> FALSE]}
    /\ UNCHANGED <<retries, mtrace>>
    /\ UNCHANGED <<cfgVars, netVars, consVars, loopVars, prodVars, delayVars, setupVars, poolVars, lockVars>>

\* Inner select, case <-c.stopChan: return.
LoopStop(l) ==
    /\ lpc[l] = "inner"
    /\ stopped
    /\ lpc' = [lpc EXCEPT ![l] = "done"]
    /\ UNCHANGED <<lch, qos>>
    /\ UNCHANGED <<cfgVars, netVars, consVars, msgVars, prodVars, delayVars, setupVars, poolVars, lockVars>>

\* Inner select, case msg, ok := <-msgs with !ok: the delivery stream was
\* closed with its channel; time.Sleep(2 * time.Second).
LoopStreamClosed(l) ==
    /\ lpc[l] = "inner"
    /\ ~chanOpen[lch[l]]
    /\ lpc' = [lpc EXCEPT ![l] = "closed_sleep"]
    /\ UNCHANGED <<lch, qos>>
    /\ UNCHANGED <<cfgVars, netVars, consVars, msgVars, prodVars, delayVars, setupVars, poolVars, lockVars>>

\* The break after the sleep: inside a select, break leaves the select, not
\* the enclosing for, so the inner loop runs its select again.
LoopBreak(l) ==
    /\ lpc[l] = "closed_sleep"
    /\ lpc' = [lpc EXCEPT ![l] = "inner"]
    /\ UNCHANGED <<lch, qos>>
    /\ UNCHANGED <<cfgVars, netVars, consVars, msgVars, prodVars, delayVars, setupVars, poolVars, lockVars>>

(***************************************************************************)
(* processMessage and ScheduleRetry.                                       *)
(***************************************************************************)
Zero64 == ToI64(0)

Op(op, rc, ok, delay) == [op |-> op, rc |-> rc, ok |-> ok, delay |-> delay]

Log(id, e) == [mtrace EXCEPT ![id] = Append(@, e)]

\* A delivery's Ack or Reject reaches the broker iff its channel is open.
Settle(t) == chanOpen[t.ch]

\* The body the publisher of message id gave it.
MsgBody(id) == <<"body", id>>

\* The main queue is bound to the main exchange with the main routing key:
\* a message published there is routed to the main queue.
RoutedToMainQueue(exchange, key) ==
    exchange = qc.ExchangeName /\ key = qc.RoutingKey

\* The x-retry-count the handler-failure path writes: retryCount + 1, an int.
NewRetryHeader(retryCount) == GoInt(retryCount + 1)

\* An int field written to the wire as a 64-bit integer, which is read back
\* as an int64.  C25 tells the two apart.
WireEncodeAsLong(hdr) ==
    IF hdr.type = "int" THEN GoInt64(hdr.val) ELSE hdr

\* An int field of an amqp.Table is written to the wire as a 32-bit signed
\* integer and read back as an int32.  Every count of this model lies within
\* 32 bits, where the conversion keeps the value and changes the type.
WireEncode(hdr) ==
    IF hdr.type = "int" THEN GoInt32(hdr.val) ELSE hdr

\* processMessage with the budget test retryCount > MaxRetries.  C7 tells
\* the two apart.
ProcessStartOffByOne(t) ==
    /\ t \in tasks
    /\ t.pc = "new"
    /\ LET retryCount == GetRetryCount(t.hdr)
       IN  IF retryCount > retryConfig.MaxRetries
           THEN /\ mtrace' = Log(t.id, Op("reject_final", retryCount, Settle(t), Zero64))
                /\ tasks' = tasks \ {t}
           ELSE /\ tasks' = (tasks \ {t}) \cup {[t EXCEPT !.pc = "handler"]}
                /\ UNCHANGED mtrace
    /\ UNCHANGED <<queue, retries>>
    /\ UNCHANGED <<cfgVars, netVars, consVars, loopVars, prodVars, delayVars, setupVars, poolVars, lockVars>>

\* GetRetryCount, then the budget check: reject without requeue and return,
\* or invoke the handler.
ProcessStart(t) ==
    /\ ~Panicked
    /\ t \in tasks
    /\ t.pc = "new"
    /\ LET retryCount == GetRetryCount(t.hdr)
       IN  IF retryCount >= retryConfig.MaxRetries
           THEN /\ mtrace' = Log(t.id, Op("reject_final", retryCount, Settle(t), Zero64))
                /\ tasks' = tasks \ {t}
           ELSE /\ tasks' = (tasks \ {t}) \cup {[t EXCEPT !.pc = "handler"]}
                /\ UNCHANGED mtrace
    /\ UNCHANGED <<queue, retries>>
    /\ UNCHANGED <<cfgVars, netVars, consVars, loopVars, prodVars, delayVars, setupVars, poolVars, lockVars>>

\* processMessage rejecting a delivery its handler accepted.  C8 tells the
\* two apart.
HandlerSuccessRejects(t) ==
    /\ t \in tasks
    /\ t.pc = "handler"
    /\ mtrace' = [mtrace EXCEPT ![t.id] =
                    @ \o << Op("handled_ok", GetRetryCount(t.hdr), TRUE, Zero64),
                            Op("reject", GetRetryCount(t.hdr), Settle(t), Zero64) >>]
    /\ tasks' = tasks \ {t}
    /\ UNCHANGED <<queue, retries>>
    /\ UNCHANGED <<cfgVars, netVars, consVars, loopVars, prodVars, delayVars, setupVars, poolVars, lockVars>>

\* The handler returns nil: msg.Ack(false).
HandlerSuccess(t) ==
    /\ ~Panicked
    /\ t \in tasks
    /\ t.pc = "handler"
    /\ mtrace' = [mtrace EXCEPT ![t.id] =
                    @ \o << Op("handled_ok", GetRetryCount(t.hdr), TRUE, Zero64),
                            Op("ack", GetRetryCount(t.hdr), Settle(t), Zero64) >>]
    /\ tasks' = tasks \ {t}
    /\ UNCHANGED <<queue, retries>>
    /\ UNCHANGED <<cfgVars, netVars, consVars, loopVars, prodVars, delayVars, setupVars, poolVars, lockVars>>

\* processMessage going on to the retry without rejecting the delivery.
\* C23 tells the two apart.
HandlerFailureNoReject(t) ==
    /\ ~Panicked
    /\ t \in tasks
    /\ t.pc = "handler"
    /\ mtrace' = Log(t.id, Op("handled_err", GetRetryCount(t.hdr), TRUE, Zero64))
    /\ tasks' = (tasks \ {t}) \cup {[t EXCEPT !.pc = "schedule"]}
    /\ UNCHANGED <<queue, retries>>
    /\ UNCHANGED <<cfgVars, netVars, consVars, loopVars, prodVars, delayVars, setupVars, poolVars, lockVars>>

\* The handler returns an error: the new headers are built, a nil
\* msg.Headers of processMessage's copy of the delivery is replaced by an
\* empty table, and the delivery is rejected without requeue.
HandlerFailure(t) ==
    /\ ~Panicked
    /\ t \in tasks
    /\ t.pc = "handler"
    /\ mtrace' = [mtrace EXCEPT ![t.id] =
                    @ \o << Op("handled_err", GetRetryCount(t.hdr), TRUE, Zero64),
                            Op("reject", GetRetryCount(t.hdr), Settle(t), Zero64) >>]
    /\ tasks' = (tasks \ {t}) \cup {[t EXCEPT !.pc = "schedule", !.settled = Settle(t),
                                               !.hdr = (IF t.hdr = NilHeaders THEN NoHeader ELSE t.hdr)]}
    /\ UNCHANGED <<queue, retries>>
    /\ UNCHANGED <<cfgVars, netVars, consVars, loopVars, prodVars, delayVars, setupVars, poolVars, lockVars>>

\* processMessage adding the retry headers to the delivery's own table and
\* republishing that table.  C38 tells the two apart.
ProcessScheduleCarriesHeaders(t) ==
    /\ ~Panicked
    /\ t \in tasks
    /\ t.pc = "schedule"
    /\ mu = "free"
    /\ LET retryCount == GetRetryCount(t.hdr)
       IN  retries' = retries \cup
               {[id |-> t.id, hdr |-> NewRetryHeader(retryCount),
                 extra |-> t.extra \cup NewRetryExtra, ch |-> channel,
                 delay |-> CalculateRetryDelay(retryCount, retryConfig),
                 exchange |-> qc.ExchangeName, key |-> qc.RoutingKey,
                 body |-> t.body]}
    /\ tasks' = tasks \ {t}
    /\ UNCHANGED <<queue, mtrace>>
    /\ UNCHANGED <<cfgVars, netVars, consVars, loopVars, prodVars, delayVars, setupVars, poolVars, lockVars>>

\* ScheduleRetry publishing to the dead-letter exchange.  C24 tells the two
\* apart.
ProcessScheduleToDeadLetter(t) ==
    /\ ~Panicked
    /\ t \in tasks
    /\ t.pc = "schedule"
    /\ mu = "free"
    /\ LET retryCount == GetRetryCount(t.hdr)
       IN  retries' = retries \cup
               {[id |-> t.id, hdr |-> NewRetryHeader(retryCount), extra |-> NewRetryExtra, ch |-> channel,
                 delay |-> CalculateRetryDelay(retryCount, retryConfig),
                 exchange |-> qc.DLXExchangeName, key |-> qc.RoutingKey,
                 body |-> t.body]}
    /\ tasks' = tasks \ {t}
    /\ UNCHANGED <<queue, mtrace>>
    /\ UNCHANGED <<cfgVars, netVars, consVars, loopVars, prodVars, delayVars, setupVars, poolVars, lockVars>>

\* RLock; channel := c.channel; RUnlock; CalculateRetryDelay; ScheduleRetry
\* starts a goroutine that sleeps for the delay and then publishes the body
\* with the new headers to the main exchange with the main routing key.
ProcessSchedule(t) ==
    /\ ~Panicked
    /\ t \in tasks
    /\ t.pc = "schedule"
    /\ mu = "free"
    /\ LET retryCount == GetRetryCount(t.hdr)
       IN  IF NegativeShift(retryCount)
           THEN /\ mtrace' = Log(t.id, Op("panic", retryCount, FALSE, Zero64))
                /\ UNCHANGED retries
           ELSE /\ retries' = retries \cup
                      {[id |-> t.id, hdr |-> NewRetryHeader(retryCount), extra |-> NewRetryExtra, ch |-> channel,
                        delay |-> CalculateRetryDelay(retryCount, retryConfig),
                        exchange |-> qc.ExchangeName, key |-> qc.RoutingKey,
                        body |-> t.body]}
                /\ UNCHANGED mtrace
    /\ tasks' = tasks \ {t}
    /\ UNCHANGED queue
    /\ UNCHANGED <<cfgVars, netVars, consVars, loopVars, prodVars, delayVars, setupVars, poolVars, lockVars>>

\* ScheduleRetry giving up consumption when its publish fails.  C30 tells
\* the two apart.
RetryPublishStopsOnError(r) ==
    /\ ~Panicked
    /\ r \in retries
    /\ retries' = retries \ {r}
    /\ mtrace' = Log(r.id, Op("publish", r.hdr.val, chanOpen[r.ch], r.delay))
    /\ IF chanOpen[r.ch] /\ RoutedToMainQueue(r.exchange, r.key)
       THEN /\ queue' = queue \cup {[id |-> r.id, hdr |-> WireEncode(r.hdr), extra |-> r.extra, body |-> r.body]}
            /\ UNCHANGED consuming
       ELSE /\ UNCHANGED queue
            /\ consuming' = FALSE
    /\ UNCHANGED <<tasks, stopped, stopCloses, cpc, starts, closes>>
    /\ UNCHANGED <<cfgVars, netVars, loopVars, prodVars, delayVars, setupVars, poolVars, lockVars>>

\* The ScheduleRetry goroutine after its sleep: channel.Publish on the
\* channel it was given; an error is logged.
RetryPublish(r) ==
    /\ ~Panicked
    /\ r \in retries
    /\ retries' = retries \ {r}
    /\ mtrace' = Log(r.id, Op("publish", r.hdr.val, chanOpen[r.ch], r.delay))
    /\ IF chanOpen[r.ch] /\ RoutedToMainQueue(r.exchange, r.key)
       THEN queue' = queue \cup {[id |-> r.id, hdr |-> WireEncode(r.hdr), extra |-> r.extra, body |-> r.body]}
       ELSE UNCHANGED queue
    /\ UNCHANGED tasks
    /\ UNCHANGED <<cfgVars, netVars, consVars, loopVars, prodVars, delayVars, setupVars, poolVars, lockVars>>

(***************************************************************************)
(* Producer: Publish and Close.                                            *)
(***************************************************************************)
\* What the caller passes to a publish operation.

NoCall == [op |-> "none", ctx |-> "nil", body |-> "", headers |-> "nil", key |-> "",
           healthy |-> FALSE]
NoRequest == [exchange |-> "", key |-> "", mandatory |-> FALSE, immediate |-> FALSE,
              deadline |-> "", ContentType |-> "", Body |-> "", Headers |-> "nil",
              DeliveryMode |-> 0]

\* amqp.Persistent
Persistent == 2

\* The arguments of channel.PublishWithContext; a nil ctx is replaced by one
\* with a 5 second timeout.
PublishRequest(exchange, key, c) ==
    [exchange |-> exchange, key |-> key, mandatory |-> FALSE, immediate |-> FALSE,
     deadline |-> (IF c.ctx = "nil" THEN "5s" ELSE c.ctx), ContentType |-> "application/json",
     Body |-> c.body, Headers |-> c.headers, DeliveryMode |-> Persistent]

\* A call that returned: its arguments, whether the client was connected
\* when it made its health check, the request it sent if it sent one, and
\* what it returned.
Returned(c, healthy, req, result) ==
    [call |-> c, healthy |-> healthy, req |-> req, result |-> result]

\* RLock; the health check; fail fast, or channel := p.channel; RUnlock.
PublishCheck ==
    /\ kind = "producer"
    /\ ppc = "idle"
    /\ pubs < MaxPublishes
    /\ mu = "free"
    /\ pubs' = pubs + 1
    /\ \E ctx \in {"nil", "ctx"} : \E body \in {"b1", "b2"} : \E headers \in {"nil", "table"} :
         LET c == [op |-> "Publish", ctx |-> ctx, body |-> body, headers |-> headers,
                   key |-> "", healthy |-> IsConnected]
         IN  IF PublishUnavailable
             THEN /\ pubResult' = "not_available"
                  /\ plog' = Append(plog, Returned(c, c.healthy, NoRequest, "not_available"))
                  /\ UNCHANGED <<ppc, pch, pcall>>
             ELSE /\ pubResult' = "pending"
                  /\ ppc' = "send"
                  /\ pch' = channel
                  /\ pcall' = c
                  /\ UNCHANGED plog
    /\ UNCHANGED published
    /\ UNCHANGED <<cfgVars, netVars, consVars, loopVars, msgVars, delayVars, setupVars, poolVars, lockVars>>

\* Publish sending a transient message.  C21 tells the two apart.
PublishSendTransient ==
    /\ ppc = "send"
    /\ pcall.op = "Publish"
    /\ ppc' = "idle"
    /\ pcall' = NoCall
    /\ LET req == [PublishRequest(qc.ExchangeName, qc.RoutingKey, pcall)
                      EXCEPT !.DeliveryMode = 1]
       IN  IF chanOpen[pch]
           THEN /\ pubResult' = "ok"
                /\ published' = published + 1
                /\ plog' = Append(plog, Returned(pcall, pcall.healthy, req, "ok"))
           ELSE /\ pubResult' = "publish_failed"
                /\ plog' = Append(plog, Returned(pcall, pcall.healthy, req, "publish_failed"))
                /\ UNCHANGED published
    /\ UNCHANGED <<pch, pubs>>
    /\ UNCHANGED <<cfgVars, netVars, consVars, loopVars, msgVars, delayVars, setupVars, poolVars, lockVars>>

\* channel.PublishWithContext on the channel read under the lock, with the
\* configured exchange and routing key.
PublishSend ==
    /\ ppc = "send"
    /\ pcall.op = "Publish"
    /\ ppc' = "idle"
    /\ pcall' = NoCall
    /\ LET req == PublishRequest(qc.ExchangeName, qc.RoutingKey, pcall)
       IN  IF chanOpen[pch]
           THEN /\ pubResult' = "ok"
                /\ published' = published + 1
                /\ plog' = Append(plog, Returned(pcall, pcall.healthy, req, "ok"))
           ELSE /\ pubResult' = "publish_failed"
                /\ plog' = Append(plog, Returned(pcall, pcall.healthy, req, "publish_failed"))
                /\ UNCHANGED published
    /\ UNCHANGED <<pch, pubs>>
    /\ UNCHANGED <<cfgVars, netVars, consVars, loopVars, msgVars, delayVars, setupVars, poolVars, lockVars>>

\* PublishWithRoutingKey(ctx, body, headers, routingKey): the health check
\* of Publish, with the same fail-fast error.
PublishWithRoutingKeyCheck ==
    /\ kind = "producer"
    /\ ppc = "idle"
    /\ Cardinality({i \in DOMAIN plog : plog[i].call.op = "PublishWithRoutingKey"}) < MaxPublishes
    /\ mu = "free"
    /\ UNCHANGED pubs
    /\ \E ctx \in {"nil", "ctx"} : \E body \in {"b1", "b2"} : \E headers \in {"nil", "table"} :
       \E key \in {"rk", "tasks.email"} :
         LET c == [op |-> "PublishWithRoutingKey", ctx |-> ctx, body |-> body,
                   headers |-> headers, key |-> key, healthy |-> IsConnected]
         IN  IF PublishUnavailable
             THEN /\ pubResult' = "not_available"
                  /\ plog' = Append(plog, Returned(c, c.healthy, NoRequest, "not_available"))
                  /\ UNCHANGED <<ppc, pch, pcall>>
             ELSE /\ pubResult' = "pending"
                  /\ ppc' = "send"
                  /\ pch' = channel
                  /\ pcall' = c
                  /\ UNCHANGED plog
    /\ UNCHANGED published
    /\ UNCHANGED <<cfgVars, netVars, consVars, loopVars, msgVars, delayVars, setupVars, poolVars, lockVars>>

\* PublishWithRoutingKey: the publish of Publish, with the routing key of
\* the call in place of the configured one.
PublishWithRoutingKeySend ==
    /\ ppc = "send"
    /\ pcall.op = "PublishWithRoutingKey"
    /\ ppc' = "idle"
    /\ pcall' = NoCall
    /\ LET req == PublishRequest(qc.ExchangeName, pcall.key, pcall)
       IN  IF chanOpen[pch]
           THEN /\ pubResult' = "ok"
                /\ published' = published + 1
                /\ plog' = Append(plog, Returned(pcall, pcall.healthy, req, "ok"))
           ELSE /\ pubResult' = "publish_failed"
                /\ plog' = Append(plog, Returned(pcall, pcall.healthy, req, "publish_failed"))
                /\ UNCHANGED published
    /\ UNCHANGED <<pch, pubs>>
    /\ UNCHANGED <<cfgVars, netVars, consVars, loopVars, msgVars, delayVars, setupVars, poolVars, lockVars>>

ProducerClose ==
    /\ kind = "producer"
    /\ closes[Caller] < MaxCloses
    /\ mu = "free"
    /\ SetNet(CloseBoth(Net))
    /\ closes' = [closes EXCEPT ![Caller] = @ + 1]
    /\ mu' = "free"
    /\ UNCHANGED <<consuming, stopped, stopCloses, cpc, starts>>
    /\ UNCHANGED <<conn, channel, nextGen, rnew, outages, fails, down>>
    /\ UNCHANGED <<cfgVars, loopVars, msgVars, prodVars, delayVars, setupVars, poolVars, lockVars>>

(***************************************************************************)
(* CalculateRetryDelay applied to consecutive retry counts.                *)
(***************************************************************************)
DelayStep ==
    /\ dRc < MaxShift
    /\ dRc' = dRc + 1
    /\ dPrev' = dOut
    /\ dOut' = CalculateRetryDelay(dRc + 1, retryConfig)
    /\ UNCHANGED <<cfgVars, netVars, consVars, loopVars, msgVars, prodVars, setupVars, poolVars, lockVars>>

(***************************************************************************)
(* config.go: the queue Config and SetupAllQueues.                         *)
(***************************************************************************)
\* The Configs: a main exchange, and optionally a main queue, a dead-letter
\* exchange and a dead-letter queue; "" is a name that is not set.

\* A broker operation of the setup and whether it succeeded.
SOp(op, name, ok) == [op |-> op, name |-> name, ok |-> ok]

NoError == [op |-> "none", name |-> ""]

\* The error a failed broker operation returns.
ErrorOf(o) == [op |-> o.op, name |-> o.name]

\* The operations issued when the first k operations of os succeed: those
\* k, and the failed one after them if there is one.
Attempt(os, k) ==
    [i \in 1..(IF k < Len(os) THEN k + 1 ELSE k) |-> SOp(os[i].op, os[i].name, i <= k)]

\* A setup function that logs an error and carries on.  C16 tells the two
\* apart.
RunSetupIgnoresError(os, next) ==
    \E k \in 0..Len(os) : \E open \in BOOLEAN :
        /\ ops' = ops \o Attempt(os, k)
        /\ open
        /\ npc' = next
        /\ UNCHANGED <<setupErr, chanOpen>>

\* One setup function issuing the operations os on the new channel: every
\* error is returned at once; the broker may close the channel with it.
RunSetup(os, next) ==
    \E k \in 0..Len(os) : \E open \in BOOLEAN :
        /\ ops' = ops \o Attempt(os, k)
        /\ IF k = Len(os)
           THEN /\ open
                /\ npc' = next
                /\ UNCHANGED <<setupErr, chanOpen>>
           ELSE /\ npc' = "setup_err"
                /\ setupErr' = ErrorOf(os[k + 1])
                /\ chanOpen' = [chanOpen EXCEPT ![InitialGen] = open]

\* A step of SetupAllQueues whose name is not set.
SkipSetup(next) ==
    /\ npc' = next
    /\ UNCHANGED <<ops, setupErr, chanOpen>>

SetupFrame ==
    /\ UNCHANGED <<qc, nres>>
    /\ UNCHANGED <<conn, channel, connOpen, nextGen, mu, wpc, rnew, outages, fails, down>>
    /\ UNCHANGED <<cfgVars, consVars, loopVars, msgVars, prodVars, delayVars, poolVars, lockVars>>

\* SetupAllQueues declaring no dead-letter exchange.  C15 tells the two
\* apart.
SetupDeadLetterExchangeNever ==
    /\ npc = "dlx"
    /\ SkipSetup("dlq")
    /\ SetupFrame

\* if qc.DLXExchangeName != "": SetupDeadLetterExchange(ch).
SetupDeadLetterExchange ==
    /\ npc = "dlx"
    /\ IF qc.DLXExchangeName = ""
       THEN SkipSetup("dlq")
       ELSE RunSetup(<<[op |-> "ExchangeDeclare", name |-> qc.DLXExchangeName]>>, "dlq")
    /\ SetupFrame

\* if qc.DLQName != "": SetupDeadLetterQueue(ch), a QueueDeclare and a QueueBind.
SetupDeadLetterQueue ==
    /\ npc = "dlq"
    /\ IF qc.DLQName = ""
       THEN SkipSetup("exchange")
       ELSE RunSetup(<<[op |-> "QueueDeclare", name |-> qc.DLQName],
                       [op |-> "QueueBind", name |-> qc.DLQName]>>, "exchange")
    /\ SetupFrame

\* SetupExchange(ch): the main exchange, always.
SetupExchange ==
    /\ npc = "exchange"
    /\ RunSetup(<<[op |-> "ExchangeDeclare", name |-> qc.ExchangeName]>>, "queue")
    /\ SetupFrame

\* SetupAllQueues without the test of the queue name.  C14 tells the two
\* apart.
SetupMainQueueAlways ==
    /\ npc = "queue"
    /\ RunSetup(<<[op |-> "QueueDeclare", name |-> qc.QueueName],
                  [op |-> "QueueBind", name |-> qc.QueueName]>>, "setup_ok")
    /\ SetupFrame

\* if qc.QueueName != "": return SetupMainQueue(ch); else return nil.
SetupMainQueue ==
    /\ npc = "queue"
    /\ IF qc.QueueName = ""
       THEN SkipSetup("setup_ok")
       ELSE RunSetup(<<[op |-> "QueueDeclare", name |-> qc.QueueName],
                       [op |-> "QueueBind", name |-> qc.QueueName]>>, "setup_ok")
    /\ SetupFrame

(***************************************************************************)
(* NewProducer / NewConsumer.                                              *)
(***************************************************************************)
NewFrame ==
    /\ UNCHANGED <<qc, ops, setupErr>>
    /\ UNCHANGED <<nextGen, mu, rnew, outages, fails, down>>
    /\ UNCHANGED <<cfgVars, consVars, loopVars, msgVars, prodVars, delayVars, poolVars, lockVars>>

\* amqp.Dial(url); an error is returned.
NewDial ==
    /\ npc = "dial"
    /\ \E ok \in BOOLEAN :
         IF ok
         THEN /\ connOpen' = [connOpen EXCEPT ![InitialGen] = TRUE]
              /\ npc' = "channel"
              /\ UNCHANGED nres
         ELSE /\ npc' = "returned"
              /\ nres' = "error"
              /\ UNCHANGED connOpen
    /\ UNCHANGED <<conn, channel, chanOpen, wpc>>
    /\ NewFrame

\* conn.Channel(); on an error conn.Close() and return the error.
NewChannel ==
    /\ npc = "channel"
    /\ \E ok \in BOOLEAN :
         IF ok
         THEN /\ chanOpen' = [chanOpen EXCEPT ![InitialGen] = TRUE]
              /\ npc' = "dlx"
              /\ UNCHANGED <<nres, connOpen, wpc>>
         ELSE /\ SetNet(ConnClose(Net, InitialGen))
              /\ npc' = "returned"
              /\ nres' = "error"
    /\ UNCHANGED <<conn, channel>>
    /\ NewFrame

\* The constructor returning the setup error without closing anything.  C17
\* tells the two apart.
NewSetupFailedLeaks ==
    /\ npc = "setup_err"
    /\ npc' = "returned"
    /\ nres' = "error"
    /\ UNCHANGED <<conn, channel, connOpen, chanOpen, wpc>>
    /\ NewFrame

\* SetupAllQueues returned an error: ch.Close(); conn.Close(); return it.
NewSetupFailed ==
    /\ npc = "setup_err"
    /\ SetNet(ConnClose(ChannelClose(Net, InitialGen), InitialGen))
    /\ npc' = "returned"
    /\ nres' = "error"
    /\ UNCHANGED <<conn, channel>>
    /\ NewFrame

\* The client is built around conn and ch, setupConnectionRecovery starts
\* the two watchers, and the client is returned.
NewClient ==
    /\ npc = "setup_ok"
    /\ conn' = InitialGen
    /\ channel' = InitialGen
    /\ wpc' = [w \in Watchers |-> "watch"]
    /\ npc' = "returned"
    /\ nres' = "client"
    /\ UNCHANGED <<connOpen, chanOpen>>
    /\ NewFrame

(***************************************************************************)
(* lua/pool.go: WorkerPool, a buffered channel used as a semaphore.        *)
(***************************************************************************)
Workers == 1..NumWorkers

DefaultMaxConcurrent == 10

\* NewWorkerPool: the capacity of the slots channel.
NewWorkerPool(maxConcurrent) ==
    IF maxConcurrent <= 0 THEN DefaultMaxConcurrent ELSE maxConcurrent

\* pool := lua.NewWorkerPool(n); the worker goroutines are started.
PoolNew ==
    /\ slotsCap = 0
    /\ \E n \in {-1, 0, 1, 2, NumWorkers} :
         /\ poolArg' = n
         /\ slotsCap' = NewWorkerPool(n)
    /\ wkpc' = [w \in Workers |-> "idle"]
    /\ UNCHANGED <<slots, slotsClosed>>
    /\ UNCHANGED <<cfgVars, netVars, consVars, loopVars, msgVars, prodVars, delayVars, setupVars, lockVars>>

\* A worker calls Acquire(): it is at the send p.slots <- struct{}{}.
AcquireCall(w) ==
    /\ wkpc[w] = "idle"
    /\ wkpc' = [wkpc EXCEPT ![w] = "acquire"]
    /\ UNCHANGED <<poolArg, slotsCap, slots, slotsClosed>>
    /\ UNCHANGED <<cfgVars, netVars, consVars, loopVars, msgVars, prodVars, delayVars, setupVars, lockVars>>

\* Acquire whose send never blocks.  C22 tells the two apart.
AcquireNeverBlocks(w) ==
    /\ wkpc[w] = "acquire"
    /\ IF slotsClosed
       THEN wkpc' = [wkpc EXCEPT ![w] = "panic"] /\ UNCHANGED slots
       ELSE wkpc' = [wkpc EXCEPT ![w] = "holding"] /\ slots' = slots + 1
    /\ UNCHANGED <<poolArg, slotsCap, slotsClosed>>
    /\ UNCHANGED <<cfgVars, netVars, consVars, loopVars, msgVars, prodVars, delayVars, setupVars, lockVars>>

\* The send of Acquire completes when the buffer has room, and Acquire
\* returns; a send on a closed channel panics.
Acquire(w) ==
    /\ wkpc[w] = "acquire"
    /\ IF slotsClosed
       THEN wkpc' = [wkpc EXCEPT ![w] = "panic"] /\ UNCHANGED slots
       ELSE /\ slots < slotsCap
            /\ wkpc' = [wkpc EXCEPT ![w] = "holding"]
            /\ slots' = slots + 1
    /\ UNCHANGED <<poolArg, slotsCap, slotsClosed>>
    /\ UNCHANGED <<cfgVars, netVars, consVars, loopVars, msgVars, prodVars, delayVars, setupVars, lockVars>>

\* The worker's deferred Release(): the receive <-p.slots takes a buffered
\* value; on an empty channel it returns at once if the channel is closed
\* and blocks otherwise.
Release(w) ==
    /\ wkpc[w] = "holding"
    /\ IF slots > 0
       THEN slots' = slots - 1
       ELSE slotsClosed /\ UNCHANGED slots
    /\ wkpc' = [wkpc EXCEPT ![w] = "idle"]
    /\ UNCHANGED <<poolArg, slotsCap, slotsClosed>>
    /\ UNCHANGED <<cfgVars, netVars, consVars, loopVars, msgVars, prodVars, delayVars, setupVars, lockVars>>

\* Close(): close(p.slots).
PoolClose ==
    /\ slotsCap > 0
    /\ ~slotsClosed
    /\ slotsClosed' = TRUE
    /\ UNCHANGED <<poolArg, slotsCap, slots, wkpc>>
    /\ UNCHANGED <<cfgVars, netVars, consVars, loopVars, msgVars, prodVars, delayVars, setupVars, lockVars>>

(***************************************************************************)
(* The client's sync.RWMutex at the grain of its operations: every routine *)
(* that touches c.mu, as the sequence of its Lock, Unlock, RLock, RUnlock   *)
(* calls and of what it does between them.  An entry is the operation, the  *)
(* part of the routine it belongs to, and the entries that can follow; 0   *)
(* is the routine's return.                                                 *)
(***************************************************************************)
LockOp(op, sec, next) == [op |-> op, sec |-> sec, next |-> next]

\* reconnect() with the write lock kept over the sleep.  C31 tells the two
\* apart.
ReconnectLockOverSleep ==
    << LockOp("Lock", "close", {2}), LockOp("step", "close", {3}),
       LockOp("step", "sleep", {4}), LockOp("Unlock", "sleep", {5}),
       LockOp("step", "attempt", {1, 6}),
       LockOp("Lock", "swap", {7}), LockOp("step", "swap", {8}),
       LockOp("Unlock", "swap", {0}) >>

\* reconnect(): Lock, close the channel and the connection, Unlock; Sleep;
\* Dial, Channel, SetupAllQueues, a failure of which continues the loop;
\* Lock, assign the pointers, Unlock.
ReconnectLock ==
    << LockOp("Lock", "close", {2}), LockOp("step", "close", {3}),
       LockOp("Unlock", "close", {4}), LockOp("step", "sleep", {5}),
       LockOp("step", "attempt", {1, 6}),
       LockOp("Lock", "swap", {7}), LockOp("step", "swap", {8}),
       LockOp("Unlock", "swap", {0}) >>

\* StartConsuming returning without Unlock when already consuming.  C37
\* tells the two apart.
StartConsumingLockLeaks ==
    << LockOp("Lock", "flag", {2}), LockOp("step", "test", {0, 4}),
       LockOp("Unlock", "return", {0}),
       LockOp("step", "set", {5}), LockOp("Unlock", "set", {0}) >>

\* StartConsuming: Lock; if c.consuming { Unlock; return }; set; Unlock.
StartConsumingLock ==
    << LockOp("Lock", "flag", {2}), LockOp("step", "test", {3, 4}),
       LockOp("Unlock", "return", {0}),
       LockOp("step", "set", {5}), LockOp("Unlock", "set", {0}) >>

\* consumeLoop: the stop check; RLock; the health check, which either
\* RUnlocks, sleeps and continues, or reads c.channel and RUnlocks; Qos,
\* Consume and the inner loop, from which it continues or returns.
ConsumeLoopLock ==
    << LockOp("step", "stop", {0, 2}), LockOp("RLock", "health", {3}),
       LockOp("step", "health", {4, 6}),
       LockOp("RUnlock", "unavailable", {5}), LockOp("step", "sleep", {1}),
       LockOp("RUnlock", "health", {7}), LockOp("step", "consume", {0, 1}) >>

\* processMessage: the handler, then either Ack, or Reject; RLock; read
\* c.channel; RUnlock; ScheduleRetry.
ProcessMessageLock ==
    << LockOp("step", "handler", {0, 2}), LockOp("RLock", "capture", {3}),
       LockOp("step", "capture", {4}), LockOp("RUnlock", "capture", {5}),
       LockOp("step", "schedule", {0}) >>

\* IsConnected: RLock; defer RUnlock; the four tests.
IsConnectedLock ==
    << LockOp("RLock", "read", {2}), LockOp("step", "read", {3}),
       LockOp("RUnlock", "read", {0}) >>

\* Publish: RLock; the health check, which either RUnlocks and returns the
\* error, or reads p.channel and RUnlocks; PublishWithContext.
PublishLock ==
    << LockOp("RLock", "health", {2}), LockOp("step", "health", {3, 4}),
       LockOp("RUnlock", "unavailable", {0}),
       LockOp("RUnlock", "health", {5}), LockOp("step", "publish", {0}) >>

\* Consumer.Close: Lock; consuming = false; Unlock; the Once and the Sleep;
\* Lock; defer Unlock; channel.Close(), whose error returns; conn.Close().
ConsumerCloseLock ==
    << LockOp("Lock", "flag", {2}), LockOp("step", "flag", {3}),
       LockOp("Unlock", "flag", {4}), LockOp("step", "signal", {5}),
       LockOp("Lock", "close", {6}), LockOp("step", "closeChannel", {7, 8}),
       LockOp("step", "closeConn", {8}), LockOp("Unlock", "close", {0}) >>

\* Producer.Close: Lock; defer Unlock; channel.Close(), whose error returns;
\* conn.Close().
ProducerCloseLock ==
    << LockOp("Lock", "close", {2}), LockOp("step", "closeChannel", {3, 4}),
       LockOp("step", "closeConn", {4}), LockOp("Unlock", "close", {0}) >>

\* The goroutines that use the lock of one client: the two close watchers
\* and one caller of each routine.
LockGoroutines ==
    Watchers \cup {"Close", "StartConsuming", "consumeLoop", "processMessage",
                   "IsConnected", "Publish"}

\* The routine goroutine g runs; << >> when the client has no such routine.
Routine(g) ==
    IF g \in Watchers THEN ReconnectLock
    ELSE IF g = "IsConnected" THEN IsConnectedLock
    ELSE IF kind = "producer"
    THEN (IF g = "Close" THEN ProducerCloseLock
          ELSE IF g = "Publish" THEN PublishLock
          ELSE << >>)
    ELSE (IF g = "Close" THEN ConsumerCloseLock
          ELSE IF g = "StartConsuming" THEN StartConsumingLock
          ELSE IF g = "consumeLoop" THEN ConsumeLoopLock
          ELSE IF g = "processMessage" THEN ProcessMessageLock
          ELSE << >>)

\* The entry goroutine g is at.
At(g) == Routine(g)[gpc[g]]

Inside(g) == gpc[g] # 0

Holds(g) == muWriter = g \/ g \in muReaders

\* A call of the routine, or a close notification reaching a watcher.
Enter(g) ==
    /\ gpc[g] = 0
    /\ Routine(g) # << >>
    /\ gpc' = [gpc EXCEPT ![g] = 1]
    /\ UNCHANGED <<muWriter, muReaders, muWaiting>>
    /\ UNCHANGED <<cfgVars, netVars, consVars, loopVars, msgVars, prodVars, delayVars, setupVars, poolVars>>

\* Lock() finds the mutex held: the caller blocks, and from now on new
\* readers block behind it.
LockWait(g) ==
    /\ Inside(g)
    /\ At(g).op = "Lock"
    /\ g \notin muWaiting
    /\ muWriter # "none" \/ muReaders # {}
    /\ muWaiting' = muWaiting \cup {g}
    /\ UNCHANGED <<gpc, muWriter, muReaders>>
    /\ UNCHANGED <<cfgVars, netVars, consVars, loopVars, msgVars, prodVars, delayVars, setupVars, poolVars>>

\* Lock() returns: no writer and no reader holds the mutex.
LockAcquire(g) ==
    /\ Inside(g)
    /\ At(g).op = "Lock"
    /\ muWriter = "none"
    /\ muReaders = {}
    /\ muWriter' = g
    /\ muWaiting' = muWaiting \ {g}
    /\ \E n \in At(g).next : gpc' = [gpc EXCEPT ![g] = n]
    /\ UNCHANGED muReaders
    /\ UNCHANGED <<cfgVars, netVars, consVars, loopVars, msgVars, prodVars, delayVars, setupVars, poolVars>>

\* RLock() returns: no writer holds the mutex and none is waiting for it.
RLockAcquire(g) ==
    /\ Inside(g)
    /\ At(g).op = "RLock"
    /\ muWriter = "none"
    /\ muWaiting = {}
    /\ muReaders' = muReaders \cup {g}
    /\ \E n \in At(g).next : gpc' = [gpc EXCEPT ![g] = n]
    /\ UNCHANGED <<muWriter, muWaiting>>
    /\ UNCHANGED <<cfgVars, netVars, consVars, loopVars, msgVars, prodVars, delayVars, setupVars, poolVars>>

\* Unlock() by the writer.
Unlock(g) ==
    /\ Inside(g)
    /\ At(g).op = "Unlock"
    /\ muWriter = g
    /\ muWriter' = "none"
    /\ \E n \in At(g).next : gpc' = [gpc EXCEPT ![g] = n]
    /\ UNCHANGED <<muReaders, muWaiting>>
    /\ UNCHANGED <<cfgVars, netVars, consVars, loopVars, msgVars, prodVars, delayVars, setupVars, poolVars>>

\* RUnlock() by a reader.
RUnlock(g) ==
    /\ Inside(g)
    /\ At(g).op = "RUnlock"
    /\ g \in muReaders
    /\ muReaders' = muReaders \ {g}
    /\ \E n \in At(g).next : gpc' = [gpc EXCEPT ![g] = n]
    /\ UNCHANGED <<muWriter, muWaiting>>
    /\ UNCHANGED <<cfgVars, netVars, consVars, loopVars, msgVars, prodVars, delayVars, setupVars, poolVars>>

\* What a routine does between two lock operations, with each of its
\* outcomes.
LockStep(g) ==
    /\ Inside(g)
    /\ At(g).op = "step"
    /\ \E n \in At(g).next : gpc' = [gpc EXCEPT ![g] = n]
    /\ UNCHANGED <<muWriter, muReaders, muWaiting>>
    /\ UNCHANGED <<cfgVars, netVars, consVars, loopVars, msgVars, prodVars, delayVars, setupVars, poolVars>>

(***************************************************************************)
(* Specifications.                                                         *)
(***************************************************************************)
\* What does not depend on how far the constructor is.
InitState(k, cfg) ==
    /\ kind = k
    /\ retryConfig = cfg
    /\ nextGen = InitialGen + 1
    /\ mu = "free"
    /\ rnew = [w \in Watchers |-> NoGen]
    /\ outages = 0
    /\ fails = 0
    /\ down = FALSE
    /\ consuming = FALSE
    /\ stopped = FALSE
    /\ stopCloses = 0
    /\ cpc = [c \in Closers |-> "idle"]
    /\ starts = 0
    /\ closes = [c \in Closers |-> 0]
    /\ lpc = [l \in Loops |-> "none"]
    /\ lch = [l \in Loops |-> NoGen]
    /\ qos = {}
    /\ tasks = {}
    /\ retries = {}
    /\ mtrace = [i \in AllMsgIds |-> <<>>]
    /\ ppc = "idle"
    /\ pch = NoGen
    /\ pubResult = "none"
    /\ published = 0
    /\ pubs = 0
    /\ pcall = NoCall
    /\ plog = <<>>
    /\ dRc = 0
    /\ dOut = CalculateRetryDelay(0, cfg)
    /\ dPrev = CalculateRetryDelay(0, cfg)
    /\ poolArg = 0
    /\ slotsCap = 0
    /\ slots = 0
    /\ slotsClosed = FALSE
    /\ wkpc = [w \in Workers |-> "none"]
    /\ gpc = [g \in LockGoroutines |-> 0]
    /\ muWriter = "none"
    /\ muReaders = {}
    /\ muWaiting = {}

\* The state after NewProducer / NewConsumer returned a client.
InitClient(k, cfg) ==
    /\ InitState(k, cfg)
    /\ conn = InitialGen
    /\ channel = InitialGen
    /\ connOpen = [g \in Gens |-> g = InitialGen]
    /\ chanOpen = [g \in Gens |-> g = InitialGen]
    /\ wpc = [w \in Watchers |-> "watch"]
    /\ qc = [ExchangeName |-> "ex", QueueName |-> "q", RoutingKey |-> "rk",
             DLXExchangeName |-> "dlx", DLQName |-> "dlq"]
    /\ npc = "returned"
    /\ ops = <<>>
    /\ setupErr = NoError
    /\ nres = "client"

DefaultConfig == [MaxRetries |-> 3, RetryDelayBase |-> 1, MaxRetryDelay |-> 60]

Init ==
    \/ InitClient("producer", DefaultConfig) /\ queue = {}
    \/ \E cfg \in RetryConfigs :
          /\ InitClient("consumer", cfg)
          /\ queue = {[id |-> i, hdr |-> NoHeader, extra |-> CustomHeaders, body |-> MsgBody(i)] : i \in MsgIds}

NextNet ==
    \/ BrokerCloseConn
    \/ BrokerCloseChannel
    \/ \E w \in Watchers : ReconnectClose(w)
    \/ \E w \in Watchers : ReconnectAttempt(w)
    \/ \E w \in Watchers : ReconnectSwap(w)
    \/ \E w \in Watchers : ReconnectRestart(w)

NextLoop ==
    \/ StartConsuming
    \/ ConsumerCloseFlag(Caller)
    \/ ConsumerCloseSignal(Caller)
    \/ ConsumerCloseConns(Caller)
    \/ \E l \in Loops : LoopCheck(l)
    \/ \E l \in Loops : LoopSubscribe(l)
    \/ \E l \in Loops : LoopStop(l)
    \/ \E l \in Loops : LoopStreamClosed(l)
    \/ \E l \in Loops : LoopBreak(l)

NextMsg ==
    \/ \E l \in Loops : \E m \in queue : LoopReceive(l, m)
    \/ \E t \in tasks : ProcessStart(t)
    \/ \E t \in tasks : HandlerSuccess(t)
    \/ \E t \in tasks : HandlerFailure(t)
    \/ \E t \in tasks : ProcessSchedule(t)
    \/ \E r \in retries : RetryPublish(r)

NextProducer ==
    \/ PublishCheck
    \/ PublishSend
    \/ ProducerClose

Next == NextNet \/ NextLoop \/ NextMsg \/ NextProducer

Spec == Init /\ [][Next]_vars

\* CalculateRetryDelay over a bounded set of configurations and retry counts.
InitDelay ==
    \E cfg \in { [MaxRetries |-> 3, RetryDelayBase |-> b, MaxRetryDelay |-> m] :
                    b \in {0, 1, 2, 5}, m \in {0, 1, 60, 300, 3600} } :
        InitClient("consumer", cfg) /\ queue = {}

SpecDelay == InitDelay /\ [][DelayStep]_vars

\* The connection supervisor and the consume loop alone, with the fairness
\* the Go scheduler gives a runnable goroutine: every step of a reconnect
\* routine and of a consume loop that stays possible is eventually taken.
\* The callers (StartConsuming, Close, Publish) and the broker may stop.
InitLive ==
    \/ InitClient("producer", DefaultConfig) /\ queue = {}
    \/ InitClient("consumer", DefaultConfig) /\ queue = {}

NextLive == NextNet \/ NextLoop \/ NextProducer

Fairness ==
    /\ \A w \in Watchers : WF_vars(ReconnectClose(w))
    /\ \A w \in Watchers : WF_vars(ReconnectAttempt(w))
    /\ \A w \in Watchers : WF_vars(ReconnectSwap(w))
    /\ \A w \in Watchers : WF_vars(ReconnectRestart(w))
    /\ \A l \in Loops : WF_vars(LoopCheck(l))
    /\ \A l \in Loops : WF_vars(LoopSubscribe(l))
    /\ \A l \in Loops : WF_vars(LoopStreamClosed(l))
    /\ \A l \in Loops : WF_vars(LoopBreak(l))

LiveSpec == InitLive /\ [][NextLive]_vars /\ Fairness

\* A Consumer receiving a message whose x-retry-count header was written by
\* any publisher: absent, no header table, or a value of one of the types the
\* library decodes, negative and large counts included.
InitHeaders ==
    \E cfg \in RetryConfigs :
    \E h \in {NoHeader, NilHeaders, GoInt(2), GoInt64(2), [type |-> "string", val |-> 2]}
                \cup {GoInt32(v) : v \in {-1, 0, 1, 2, 3, 2147483647}} :
        /\ InitClient("consumer", cfg)
        /\ queue = {[id |-> i, hdr |-> h, extra |-> (IF h = NilHeaders THEN {} ELSE CustomHeaders), body |-> MsgBody(i)] : i \in MsgIds}

NextHeaders ==
    \/ StartConsuming
    \/ \E l \in Loops : LoopCheck(l)
    \/ \E l \in Loops : LoopSubscribe(l)
    \/ NextMsg

SpecHeaders == InitHeaders /\ [][NextHeaders]_vars

\* A constructor call from its first line, for every Config.
InitSetup ==
    \E k \in {"producer", "consumer"} :
    \E c \in [ExchangeName : {"ex"}, QueueName : {"", "q"}, RoutingKey : {"rk"},
              DLXExchangeName : {"", "dlx"}, DLQName : {"", "dlq"}] :
        /\ InitState(k, DefaultConfig)
        /\ queue = {}
        /\ conn = NoGen
        /\ channel = NoGen
        /\ connOpen = [g \in Gens |-> FALSE]
        /\ chanOpen = [g \in Gens |-> FALSE]
        /\ wpc = [w \in Watchers |-> "none"]
        /\ qc = c
        /\ npc = "dial"
        /\ ops = <<>>
        /\ setupErr = NoError
        /\ nres = "none"

NextSetup ==
    \/ NewDial
    \/ NewChannel
    \/ SetupDeadLetterExchange
    \/ SetupDeadLetterQueue
    \/ SetupExchange
    \/ SetupMainQueue
    \/ NewSetupFailed
    \/ NewClient

SpecSetup == InitSetup /\ [][NextSetup]_vars

\* A Consumer with a message waiting, its connection supervisor, its consume
\* loops handing deliveries to processMessage goroutines, and two goroutines
\* of the application that may each call Close(), one after the other or
\* concurrently.
InitStop ==
    /\ InitClient("consumer", DefaultConfig)
    /\ queue = {[id |-> i, hdr |-> NoHeader, extra |-> CustomHeaders, body |-> MsgBody(i)] : i \in MsgIds}

NextClose ==
    \/ NextNet
    \/ StartConsuming
    \/ \E c \in Closers : ConsumerCloseFlag(c)
    \/ \E c \in Closers : ConsumerCloseSignal(c)
    \/ \E c \in Closers : ConsumerCloseConns(c)
    \/ \E l \in Loops : LoopCheck(l)
    \/ \E l \in Loops : LoopSubscribe(l)
    \/ \E l \in Loops : LoopStop(l)
    \/ \E l \in Loops : LoopStreamClosed(l)
    \/ \E l \in Loops : LoopBreak(l)
    \/ \E l \in Loops : \E m \in queue : LoopReceive(l, m)

\* A running consume loop takes its next step.  A select with several ready
\* cases picks one at random: the case of a closed stopChan, ready whenever
\* the loop is at the select, is not passed over for ever.  Nothing is
\* assumed of the callers, the broker or the reconnect routines.
StopFairness ==
    /\ \A l \in Loops : WF_vars(LoopCheck(l))
    /\ \A l \in Loops : WF_vars(LoopSubscribe(l))
    /\ \A l \in Loops : WF_vars(LoopStreamClosed(l))
    /\ \A l \in Loops : WF_vars(LoopBreak(l))
    /\ \A l \in Loops : SF_vars(LoopStop(l))

CloseSpec == InitStop /\ [][NextClose]_vars

\* The same Consumer with one caller of Close(), under StopFairness.
NextStop ==
    \/ NextNet
    \/ NextLoop
    \/ \E l \in Loops : \E m \in queue : LoopReceive(l, m)

StopSpec == InitStop /\ [][NextStop]_vars /\ StopFairness

\* A Producer whose caller publishes with the configured routing key and
\* with routing keys of its own, while the broker may drop the connection
\* or the channel and the caller may close the producer.
InitPublish ==
    /\ InitClient("producer", DefaultConfig)
    /\ queue = {}

NextPublish ==
    \/ BrokerCloseConn
    \/ BrokerCloseChannel
    \/ PublishCheck
    \/ PublishSend
    \/ PublishWithRoutingKeyCheck
    \/ PublishWithRoutingKeySend
    \/ ProducerClose

SpecPublish == InitPublish /\ [][NextPublish]_vars

\* A WorkerPool and worker goroutines that each run, again and again,
\* pool.Acquire(); defer pool.Release(); the work.
InitPool ==
    /\ InitClient("producer", DefaultConfig)
    /\ queue = {}

NextPool ==
    \/ PoolNew
    \/ \E w \in Workers : AcquireCall(w)
    \/ \E w \in Workers : Acquire(w)
    \/ \E w \in Workers : Release(w)
    \/ PoolClose

SpecPool == InitPool /\ [][NextPool]_vars

\* A producer or a consumer whose routines are called, again and again,
\* from concurrent goroutines, at the grain of the lock operations.
InitLock ==
    \E k \in {"producer", "consumer"} :
        /\ InitClient(k, DefaultConfig)
        /\ queue = {}

NextLock ==
    \/ \E g \in LockGoroutines : Enter(g)
    \/ \E g \in LockGoroutines : LockWait(g)
    \/ \E g \in LockGoroutines : LockAcquire(g)
    \/ \E g \in LockGoroutines : RLockAcquire(g)
    \/ \E g \in LockGoroutines : Unlock(g)
    \/ \E g \in LockGoroutines : RUnlock(g)
    \/ \E g \in LockGoroutines : LockStep(g)

SpecLock == InitLock /\ [][NextLock]_vars

\* A Consumer with more than one message waiting, whose handler succeeds:
\* the connection supervisor, StartConsuming, Close, the consume loops and
\* the processMessage goroutines.
InitPrefetch ==
    /\ InitClient("consumer", DefaultConfig)
    /\ queue = {[id |-> i, hdr |-> NoHeader, extra |-> CustomHeaders, body |-> MsgBody(i)] : i \in AllMsgIds}

NextPrefetch ==
    \/ NextNet
    \/ NextLoop
    \/ \E l \in Loops : \E m \in queue : LoopReceive(l, m)
    \/ \E t \in tasks : ProcessStart(t)
    \/ \E t \in tasks : HandlerSuccess(t)

SpecPrefetch == InitPrefetch /\ [][NextPrefetch]_vars

(***************************************************************************)
(* Properties.                                                             *)
(***************************************************************************)
ReconnectPcs == {"rc_close", "rc_dial", "rc_swap"}

IsHandled(e) == e.op \in {"handled_ok", "handled_err"}
IsReject(e) == e.op \in {"reject", "reject_final"}

OpNames(s) == [i \in DOMAIN s |-> s[i].op]

Count(s, op) == Cardinality({i \in DOMAIN s : s[i].op = op})

\* The handler failed on the first two deliveries of message id and succeeded
\* on the third.
FailsTwiceThenSucceeds(id) ==
    OpNames(SelectSeq(mtrace[id], IsHandled)) = <<"handled_err", "handled_err", "handled_ok">>

\* C1: no message is silently lost: a scheduled republish is never dropped
\* with nothing but a log line, also when the connection or channel is
\* closed or replaced during the retry delay.
C1_NoRetryDropped ==
    \A id \in MsgIds : \A i \in DOMAIN mtrace[id] :
        mtrace[id][i].op = "publish" => mtrace[id][i].ok

\* C2: while the consumer is consuming and not stopped, a re-established
\* connection leads to a subscription on an open channel without any further
\* call by the caller.
C2_ConsumptionResumes ==
    (kind = "consumer" /\ consuming /\ ~stopped /\ IsConnected /\ conn # InitialGen)
        ~> ((\E l \in Loops : lpc[l] = "inner" /\ chanOpen[lch[l]]) \/ ~IsConnected \/ stopped \/ ~consuming)

\* C3: IsConnected is true only if the current connection and channel are
\* both open; it is false from a broker close notification until a reconnect
\* routine swaps in a new pair, and true right after the swap.
C3_IsConnected ==
    /\ [](IsConnected => connOpen[conn] /\ chanOpen[channel])
    /\ [](down => ~IsConnected)
    /\ [][conn' # conn => IsConnected']_vars

C3_Witness ==
    IsConnected /\ conn # InitialGen /\ ~down /\ outages > 0

\* C4: after every successful reconnect a close watcher is watching the new
\* connection and channel: whenever the client is connected and no reconnect
\* routine is running, some watcher ranges over the close notifications of
\* the current generation.
C4_WatchersFollowReconnect ==
    (IsConnected /\ \A w \in Watchers : wpc[w] \notin ReconnectPcs)
        => \E w \in Watchers : wpc[w] = "watch" /\ WatchedGen = conn

\* C5: a reconnect routine leaves its loop only by the pointer swap, which
\* installs the connection and channel of an attempt whose three steps all
\* succeeded; it retries without an attempt limit, so that once the steps
\* stop failing the routine returns and the client is connected.
C5_ReconnectUntilConnected ==
    /\ [][\A w \in Watchers :
            (wpc[w] \in ReconnectPcs /\ wpc'[w] \notin ReconnectPcs)
                => /\ wpc[w] = "rc_swap"
                   /\ rnew[w] # NoGen
                   /\ conn' = rnew[w] /\ channel' = rnew[w]
                   /\ connOpen'[conn'] /\ chanOpen'[channel']]_vars
    /\ \A w \in Watchers : (wpc[w] \in ReconnectPcs) ~> (wpc[w] \notin ReconnectPcs)
    /\ \A w \in Watchers : (wpc[w] \in ReconnectPcs) ~> IsConnected

C5_Witness ==
    fails > 0 /\ IsConnected /\ conn # InitialGen /\ \A w \in Watchers : wpc[w] \notin ReconnectPcs

\* C6: a Publish made while the producer is not connected returns the
\* "not available" error in the same step, hands nothing to the broker, and
\* can be made whatever the reconnect routines are doing.
C6_PublishFailsFast ==
    /\ [][(pubs' = pubs + 1 /\ ~IsConnected)
            => (pubResult' = "not_available" /\ ppc' = "idle" /\ published' = published)]_vars
    /\ []((kind = "producer" /\ ppc = "idle" /\ pubs < MaxPublishes) => ENABLED PublishCheck)

C6_Witness ==
    /\ pubResult = "not_available"
    /\ published = 0
    /\ \E w \in Watchers : wpc[w] \in {"rc_dial", "rc_swap"}

\* C7: the handler is invoked exactly on the deliveries whose retry count is
\* below MaxRetries; a delivery at or over the budget is rejected without
\* requeue and nothing follows it; so a message is handled at most MaxRetries
\* times and republished at most MaxRetries times.
C7_RetryBudget ==
    /\ \A t \in tasks :
         t.pc \in {"handler", "schedule"} => GetRetryCount(t.hdr) < retryConfig.MaxRetries
    /\ \A r \in retries : r.hdr.val <= retryConfig.MaxRetries
    /\ \A id \in MsgIds :
         LET tr == mtrace[id]
         IN  /\ \A i \in DOMAIN tr :
                  /\ IsHandled(tr[i]) => tr[i].rc < retryConfig.MaxRetries
                  /\ tr[i].op = "reject" => tr[i].rc < retryConfig.MaxRetries
                  /\ tr[i].op = "publish" => tr[i].rc <= retryConfig.MaxRetries
                  /\ tr[i].op = "reject_final" =>
                        /\ tr[i].rc >= retryConfig.MaxRetries
                        /\ i = Len(tr)
                        /\ (i > 1 => tr[i - 1].op = "publish")
             /\ Count(tr, "handled_ok") + Count(tr, "handled_err") <= retryConfig.MaxRetries
             /\ Count(tr, "publish") <= retryConfig.MaxRetries

C7_Witness ==
    \E id \in MsgIds :
        /\ retryConfig.MaxRetries = 3
        /\ Count(mtrace[id], "handled_err") = 3
        /\ Count(mtrace[id], "publish") = 3
        /\ mtrace[id][Len(mtrace[id])].op = "reject_final"

\* C8 as stated: a message whose handler fails twice and then succeeds is
\* never rejected, no reject being issued for any of its deliveries.
C8_NeverRejected ==
    \A id \in MsgIds :
        FailsTwiceThenSucceeds(id) => SelectSeq(mtrace[id], IsReject) = <<>>

\* C8 amended: such a message is acknowledged on its third delivery and never
\* rejected for an exhausted budget; the only rejects are those of its two
\* failed deliveries, and the acknowledged delivery is not rejected.
C8_AckedNeverFinallyRejected ==
    \A id \in MsgIds :
        FailsTwiceThenSucceeds(id) =>
            LET tr == mtrace[id]
                rj == SelectSeq(tr, IsReject)
            IN  /\ tr[Len(tr)].op = "ack" /\ tr[Len(tr)].rc = 2
                /\ Count(tr, "ack") = 1
                /\ Count(tr, "reject_final") = 0
                /\ Len(rj) = 2 /\ rj[1].rc = 0 /\ rj[2].rc = 1

C8_Witness ==
    \E id \in MsgIds : FailsTwiceThenSucceeds(id) /\ retryConfig.MaxRetries = 3

\* The operations issued for a message whose handler fails twice and then
\* succeeds, in order, delays left aside.
RetryTraceShape(id) ==
    /\ OpNames(mtrace[id]) = << "handled_err", "reject", "publish",
                                "handled_err", "reject", "publish",
                                "handled_ok", "ack" >>
    /\ mtrace[id][2].rc = 0 /\ mtrace[id][3].rc = 1 /\ mtrace[id][3].ok
    /\ mtrace[id][5].rc = 1 /\ mtrace[id][6].rc = 2 /\ mtrace[id][6].ok
    /\ mtrace[id][8].rc = 2
    /\ \A r \in retries : r.id # id
    /\ \A m \in queue : m.id # id
    /\ \A t \in tasks : t.id # id

\* C9 as stated: reject, republish with x-retry-count 1, reject, republish
\* with x-retry-count 2 and a strictly greater delay, one acknowledgment, and
\* no republish after it.
C9_RetryTraceStrict ==
    \A id \in MsgIds :
        FailsTwiceThenSucceeds(id) =>
            /\ RetryTraceShape(id)
            /\ Less64(mtrace[id][3].delay, mtrace[id][6].delay)

\* C9 amended: the same trace, the second delay being at least the first,
\* and strictly greater exactly when 0 < RetryDelayBase < MaxRetryDelay.
C9_RetryTrace ==
    \A id \in MsgIds :
        FailsTwiceThenSucceeds(id) =>
            /\ RetryTraceShape(id)
            /\ ~Less64(mtrace[id][6].delay, mtrace[id][3].delay)
            /\ Less64(mtrace[id][3].delay, mtrace[id][6].delay)
                 <=> (0 < retryConfig.RetryDelayBase
                        /\ retryConfig.RetryDelayBase < retryConfig.MaxRetryDelay)

C9_Witness ==
    \E id \in MsgIds :
        /\ FailsTwiceThenSucceeds(id)
        /\ Less64(mtrace[id][3].delay, mtrace[id][6].delay)

\* C10: CalculateRetryDelay is non-negative, at most MaxRetryDelay seconds,
\* and non-decreasing in retryCount, for every retryCount >= 0.
C10_DelayBoundedMonotone ==
    /\ ~IsNeg64(dOut)
    /\ ~Less64(Seconds(retryConfig.MaxRetryDelay), dOut)
    /\ ~Less64(dOut, dPrev)

\* min(b * 2^n, cap) on the naturals, without any machine arithmetic.
RECURSIVE MinExp(_, _, _)
MinExp(b, n, cap) ==
    IF b >= cap THEN cap
    ELSE IF n = 0 THEN b
    ELSE MinExp(2 * b, n - 1, cap)

\* C11: CalculateRetryDelay(retryCount, config) is
\* min(RetryDelayBase * 2^retryCount, MaxRetryDelay) seconds for every
\* retryCount >= 0.
C11_DelayIsCappedExponential ==
    dOut = Seconds(MinExp(retryConfig.RetryDelayBase, dRc, retryConfig.MaxRetryDelay))

\* The integer a header value stores, whatever its integer type; 0 for a
\* value that is absent or no integer.
StoredInteger(hdr) ==
    IF hdr.type \in {"int", "int32", "int64"} THEN hdr.val ELSE 0

\* C12: GetRetryCount returns the integer stored in x-retry-count whatever
\* integer type it was stored with, and 0 when the header is absent or no
\* integer: for every delivery waiting or in processing, and for the retry
\* count processMessage logged for a failed delivery.
C12_ReturnsStoredInteger ==
    /\ \A m \in queue : GetRetryCount(m.hdr) = StoredInteger(m.hdr)
    /\ \A t \in tasks :
         /\ GetRetryCount(t.hdr) = StoredInteger(t.hdr)
         /\ t.pc = "schedule" =>
                mtrace[t.id][Len(mtrace[t.id])].rc = StoredInteger(t.hdr)

\* C13: whatever the x-retry-count of a delivery and whatever the handler
\* returns, processMessage never panics.
C13_NeverPanics ==
    ~Panicked

\* The setup issued operation op on name, and it succeeded.
Did(op, name) ==
    \E i \in DOMAIN ops : ops[i] = SOp(op, name, TRUE)

\* C14: with an empty QueueName the setup declares and binds no main queue
\* (every queue operation is on the dead-letter queue), and a setup that
\* succeeded has declared the main exchange, and the dead-letter exchange
\* and queue when they are named.
C14_ProducerOnlySetup ==
    qc.QueueName = "" =>
        /\ \A i \in DOMAIN ops :
              ops[i].op \in {"QueueDeclare", "QueueBind"}
                  => (qc.DLQName # "" /\ ops[i].name = qc.DLQName)
        /\ (npc = "setup_ok" \/ nres = "client") =>
              /\ Did("ExchangeDeclare", qc.ExchangeName)
              /\ qc.DLXExchangeName # "" => Did("ExchangeDeclare", qc.DLXExchangeName)
              /\ qc.DLQName # "" =>
                    Did("QueueDeclare", qc.DLQName) /\ Did("QueueBind", qc.DLQName)

C14_Witness ==
    qc.QueueName = "" /\ qc.DLQName # "" /\ nres = "client"

\* The operations the setup of Config c issues when none fails, in order.
SetupOrder(c) ==
    (IF c.DLXExchangeName # ""
        THEN <<[op |-> "ExchangeDeclare", name |-> c.DLXExchangeName]>> ELSE <<>>)
    \o (IF c.DLQName # ""
        THEN <<[op |-> "QueueDeclare", name |-> c.DLQName],
               [op |-> "QueueBind", name |-> c.DLQName]>> ELSE <<>>)
    \o <<[op |-> "ExchangeDeclare", name |-> c.ExchangeName]>>
    \o (IF c.QueueName # ""
        THEN <<[op |-> "QueueDeclare", name |-> c.QueueName],
               [op |-> "QueueBind", name |-> c.QueueName]>> ELSE <<>>)

\* C15: the operations issued are a prefix of: dead-letter exchange, dead-
\* letter queue and its binding, main exchange, main queue and its binding,
\* each only if named, and all of them once the setup succeeded; a named
\* dead-letter exchange is declared before the main queue is.
C15_SetupOrder ==
    /\ Len(ops) <= Len(SetupOrder(qc))
    /\ \A i \in DOMAIN ops : ErrorOf(ops[i]) = SetupOrder(qc)[i]
    /\ (npc = "setup_ok" \/ nres = "client") => Len(ops) = Len(SetupOrder(qc))
    /\ \A i \in DOMAIN ops :
          (qc.DLXExchangeName # "" /\ ops[i].op = "QueueDeclare" /\ ops[i].name = qc.QueueName)
              => \E j \in 1..(i - 1) : ops[j] = SOp("ExchangeDeclare", qc.DLXExchangeName, TRUE)

C15_Witness ==
    /\ qc.DLXExchangeName # "" /\ qc.DLQName # "" /\ qc.QueueName # ""
    /\ nres = "client"

\* C16: the first failed operation ends the setup: it is the last one
\* issued, its error is what SetupAllQueues returns, no client is built, and
\* what was declared before it stays: the operations issued only grow and
\* are declares and binds.
C16_FirstErrorAborts ==
    /\ [](\A i \in DOMAIN ops : ~ops[i].ok => i = Len(ops))
    /\ []((\E i \in DOMAIN ops : ~ops[i].ok)
            => /\ setupErr = ErrorOf(ops[Len(ops)])
               /\ npc \in {"setup_err", "returned"}
               /\ nres # "client")
    /\ []((\A i \in DOMAIN ops : ops[i].ok) => setupErr = NoError)
    /\ [](\A i \in DOMAIN ops : ops[i].op \in {"ExchangeDeclare", "QueueDeclare", "QueueBind"})
    /\ [][Len(ops') >= Len(ops) /\ SubSeq(ops', 1, Len(ops)) = ops]_vars

C16_Witness ==
    /\ setupErr # NoError
    /\ Len(ops) >= 3
    /\ nres = "error"

\* C17: a constructor that returned an error returned no client, left no
\* connection or channel open and no watcher running; it returns an error
\* exactly when dial, channel-open or a setup step failed.
C17_FailedConstructorCleansUp ==
    /\ nres = "error" =>
          /\ conn = NoGen /\ channel = NoGen
          /\ \A g \in Gens : ~connOpen[g] /\ ~chanOpen[g]
          /\ \A w \in Watchers : wpc[w] = "none"
    /\ nres = "client" =>
          /\ setupErr = NoError
          /\ IsConnected
          /\ \A w \in Watchers : wpc[w] = "watch"
    /\ (npc = "returned" /\ setupErr # NoError) => nres = "error"

C17_Witness ==
    nres = "error" /\ setupErr # NoError /\ Len(ops) >= 2

\* C18: when Close() returns, the current channel and the current connection
\* are both closed, also when closing the channel returned an error.
C18_CloseClosesBoth ==
    [][((kind = "producer" /\ closes' # closes)
            \/ (kind = "consumer" /\ \E c \in Closers : cpc[c] = "sleep" /\ cpc'[c] = "idle"))
          => (~chanOpen'[channel'] /\ ~connOpen'[conn'])]_vars

\* C19: close(stopChan) is executed at most once whatever the number of
\* Close() calls, sequential or concurrent; the signal is closed as soon as
\* one Close() passed its Once, stays closed, and every loop observes it: at
\* the top of the outer loop it returns, at the inner select the stop case
\* is ready.
C19_StopClosedOnce ==
    /\ [](stopCloses <= 1)
    /\ [](stopped <=> stopCloses = 1)
    /\ [](\A c \in Closers :
            (cpc[c] = "sleep" \/ (cpc[c] = "idle" /\ closes[c] > 0)) => stopped)
    /\ [][stopped => stopped']_vars
    /\ [](stopped => \A l \in Loops : lpc[l] = "inner" => ENABLED LoopStop(l))
    /\ [][\A l \in Loops :
            (stopped /\ lpc[l] = "top" /\ lpc'[l] # "top") => lpc'[l] = "done"]_vars

C19_Witness ==
    stopCloses = 1 /\ \A c \in Closers : cpc[c] = "sleep"

\* C20: once the stop signal is closed, every consume loop that is running
\* terminates, wherever it is, and a loop that terminated stays terminated
\* and hands no further delivery to processMessage.
C20_LoopTerminates ==
    /\ \A l \in Loops : (stopped /\ lpc[l] \notin {"none", "done"}) ~> (lpc[l] = "done")
    /\ [][\A l \in Loops :
            lpc[l] = "done" =>
                (lpc'[l] = "done" /\ \A t \in tasks' \ tasks : t.l # l)]_vars

C20_Witness ==
    \E l \in Loops : lpc[l] = "done" /\ lch[l] # NoGen /\ ~chanOpen[lch[l]] /\ queue # {}

\* Two calls that differ in nothing but the operation and the routing key.
SameCall(e, f) ==
    /\ e.call.op = "Publish"
    /\ f.call.op = "PublishWithRoutingKey"
    /\ e.call.ctx = f.call.ctx
    /\ e.call.body = f.call.body
    /\ e.call.headers = f.call.headers
    /\ e.healthy = f.healthy

Holders == {w \in Workers : wkpc[w] = "holding"}

\* C22: the callers holding a slot are never more than maxConcurrent, which
\* is 10 when NewWorkerPool was given a value <= 0; a caller in Acquire() is
\* blocked exactly while that many slots are held, so it can proceed in the
\* state a Release() leaves.
C22_BoundedConcurrency ==
    /\ [](slotsCap > 0 => slotsCap = (IF poolArg <= 0 THEN 10 ELSE poolArg))
    /\ [](Cardinality(Holders) <= slotsCap)
    /\ [](\A w \in Workers :
            (wkpc[w] = "acquire" /\ ~slotsClosed) =>
                (ENABLED Acquire(w) <=> Cardinality(Holders) < slotsCap))
    /\ [][\A w, v \in Workers :
            (wkpc[w] = "holding" /\ wkpc'[w] = "idle" /\ wkpc'[v] = "acquire"
                /\ ~slotsClosed)
            => (ENABLED Acquire(v))']_vars

C22_Witness ==
    /\ Cardinality(Holders) = slotsCap
    /\ ~slotsClosed
    /\ \E w \in Workers : wkpc[w] = "acquire" /\ ~ENABLED Acquire(w)

\* The deliveries of message id whose processMessage has issued neither an
\* Ack nor a Reject yet.
Unissued(ts, id) == {t \in ts : t.id = id /\ t.pc \in {"new", "handler"}}

\* msg.Ack(false) and msg.Reject(false) calls in a trace.
Settlements(s) == Cardinality({i \in DOMAIN s : s[i].op \in {"ack", "reject", "reject_final"}})

\* What a step appended to the trace of message id.
Added(id) == SubSeq(mtrace'[id], Len(mtrace[id]) + 1, Len(mtrace'[id]))

\* C23: every delivery handed to processMessage is settled exactly once: a
\* step issues an Ack or a Reject exactly for the deliveries that leave the
\* stage where nothing was issued, one call each, and the call is the one of
\* the path taken: Reject alone when the budget is exhausted, Ack alone
\* after a handler success, Reject alone after a handler failure.
C23_SettledExactlyOnce ==
    [][\A id \in MsgIds :
          /\ Settlements(Added(id)) =
                Cardinality(Unissued(tasks, id)) + Cardinality({t \in tasks' \ tasks : t.id = id /\ t.pc = "new"})
                    - Cardinality(Unissued(tasks', id))
          /\ OpNames(Added(id)) \in
                { <<>>, <<"reject_final">>, <<"handled_ok", "ack">>,
                  <<"handled_err", "reject">>, <<"publish">>, <<"panic">> }
      ]_vars

C23_Witness ==
    /\ tasks = {}
    /\ \E id \in MsgIds :
         Count(mtrace[id], "reject") = 3 /\ Count(mtrace[id], "reject_final") = 1

\* C24: on a handler failure the delivery is rejected without requeue and
\* then, whether or not the reject succeeded, the republish is scheduled;
\* the republish is made after a sleep of CalculateRetryDelay(retryCount,
\* config), and it publishes the body of the delivery, unchanged, to the
\* main exchange with the main routing key, never to the dead-letter
\* exchange.
C24_RejectThenDelayedRepublish ==
    /\ [][\A r \in retries' \ retries :
            /\ mtrace[r.id] # <<>>
            /\ mtrace[r.id][Len(mtrace[r.id])].op = "reject"
            /\ mtrace[r.id][Len(mtrace[r.id])].rc = r.hdr.val - 1
            /\ r.delay = CalculateRetryDelay(r.hdr.val - 1, retryConfig)
            /\ r.exchange = qc.ExchangeName
            /\ r.exchange # qc.DLXExchangeName
            /\ r.key = qc.RoutingKey
            /\ r.body = MsgBody(r.id)]_vars
    /\ [][\A id \in MsgIds :
            OpNames(Added(id)) = <<"handled_err", "reject">> =>
                \E t \in tasks' : t.id = id /\ t.pc = "schedule"]_vars
    /\ [][\A t \in tasks \ tasks' :
            t.pc = "schedule" =>
                \E r \in retries' \ retries : r.id = t.id /\ r.body = t.body]_vars
    /\ [][\A r \in retries \ retries' :
            /\ Added(r.id) = <<Op("publish", r.hdr.val, chanOpen[r.ch], r.delay)>>
            /\ chanOpen[r.ch] =>
                  \E m \in queue' :
                      m.id = r.id /\ m.hdr = WireEncode(r.hdr) /\ m.body = MsgBody(r.id)]_vars

C24_Witness ==
    \E id \in MsgIds : \E i \in DOMAIN mtrace[id] :
        /\ i < Len(mtrace[id])
        /\ mtrace[id][i].op = "reject"
        /\ ~mtrace[id][i].ok
        /\ mtrace[id][i + 1].op = "publish"
        /\ mtrace[id][i + 1].ok
        /\ \E m \in queue : m.id = id /\ m.body = MsgBody(id)

\* C25: the x-retry-count the consumer writes on a handler failure, the old
\* count + 1, is the count GetRetryCount reads on the redelivered message:
\* along the republish chain of a message each delivery's count is the
\* previous delivery's count plus one, and it never falls back to 0.
C25_RetryCountRoundTrip ==
    /\ \A id \in MsgIds : \A i \in DOMAIN mtrace[id] :
          mtrace[id][i].op = "publish" =>
             /\ i > 1
             /\ mtrace[id][i - 1].op = "reject"
             /\ mtrace[id][i].rc = mtrace[id][i - 1].rc + 1
             /\ i < Len(mtrace[id]) =>
                   /\ mtrace[id][i + 1].op \in {"handled_ok", "handled_err", "reject_final"}
                   /\ mtrace[id][i + 1].rc = mtrace[id][i - 1].rc + 1
                   /\ mtrace[id][i + 1].rc # 0
    /\ \A m \in queue :
          (mtrace[m.id] # <<>> /\ mtrace[m.id][Len(mtrace[m.id])].op = "publish") =>
              GetRetryCount(m.hdr) = mtrace[m.id][Len(mtrace[m.id]) - 1].rc + 1
    /\ \A t \in tasks :
          (mtrace[t.id] # <<>> /\ mtrace[t.id][Len(mtrace[t.id])].op = "publish") =>
              GetRetryCount(t.hdr) = mtrace[t.id][Len(mtrace[t.id]) - 1].rc + 1

C25_Witness ==
    \E id \in MsgIds :
        LET s == mtrace[id]
        IN  /\ Len(s) >= 4
            /\ s[Len(s) - 1].op = "handled_err" /\ s[Len(s) - 1].rc = 2
            /\ s[Len(s) - 2].op = "publish" /\ s[Len(s) - 2].rc = 2
            /\ s[Len(s) - 3].op = "reject" /\ s[Len(s) - 3].rc = 1

\* C26: a consume loop that saw its delivery stream close, and is not
\* stopped, leaves the inner receive loop after its sleep: its next step
\* takes it to the top of the outer loop, where it checks the connection
\* and subscribes on the current channel.
C26_ResubscribesAfterStreamClosed ==
    [][\A l \in Loops :
          (lpc[l] = "closed_sleep" /\ lpc'[l] # "closed_sleep" /\ ~stopped)
              => lpc'[l] = "top"]_vars

\* C28: at most one consume loop runs per consumer at any time, and hence
\* at most one subscription exists, whatever StartConsuming calls the caller
\* and the reconnect routine make.
C28_SingleConsumeLoop ==
    /\ Cardinality({l \in Loops : lpc[l] \notin {"none", "done"}}) <= 1
    /\ Cardinality({l \in Loops : lpc[l] = "inner" /\ chanOpen[lch[l]]}) <= 1

\* C27: with prefetch 1 set before every subscription, at most one delivery
\* handed to the consumer is unsettled at any time and at most one handler
\* invocation is in progress, also while a reconnect replaces the channel.
C27_OneHandlerAtATime ==
    /\ \A l \in Loops : lpc[l] = "inner" => lch[l] \in qos
    /\ Cardinality({t \in tasks : t.pc \in {"new", "handler"}}) <= 1
    /\ Cardinality({t \in tasks : t.pc = "handler"}) <= 1

\* C29: a reconnect excursion leaves the logical state of the consumer as it
\* was: no step of a close watcher or of the reconnect routine, the restart
\* it starts included, changes the consuming flag or the stop signal.
C29_ReconnectKeepsLogicalState ==
    [][(\E w \in Watchers : wpc'[w] # wpc[w])
          => (consuming' = consuming /\ stopped' = stopped)]_vars

\* C30: an error of Ack, of Reject or of the delayed republish is only
\* logged: the step leaves the consuming flag, the stop signal and the
\* connection and channel pointers as they were, starts no reconnect, and
\* leaves every consume loop where it was.
C30_SettleErrorsOnlyLogged ==
    [][\A id \in MsgIds :
          (\E i \in DOMAIN Added(id) :
              Added(id)[i].op \in {"ack", "reject", "reject_final", "publish"}
                  /\ ~Added(id)[i].ok) =>
              UNCHANGED <<consuming, stopped, stopCloses, conn, channel, connOpen, chanOpen,
                          wpc, rnew, lpc, lch, qos>>]_vars

C30_Witness ==
    \E id \in MsgIds : \E i, j \in DOMAIN mtrace[id] :
        /\ mtrace[id][i].op = "reject" /\ ~mtrace[id][i].ok
        /\ mtrace[id][j].op = "publish" /\ ~mtrace[id][j].ok
        /\ \E l \in Loops : lpc[l] \in {"inner", "closed_sleep"}
        /\ consuming
        /\ ~stopped

\* C32: every connection a reconnect routine opened is either installed
\* (or about to be) or closed, and a replaced connection is closed: no
\* connection is left open and unreferenced, also when one outage starts two
\* reconnect routines.
C32_NoLeakedConnection ==
    \A g \in Gens : connOpen[g] => (g = conn \/ \E w \in Watchers : rnew[w] = g)

\* C33: a reconnect routine never closes a healthy connection that a
\* concurrent reconnect has installed: a connected client stops being
\* connected only by a new broker-side close (or by the application's
\* Close()).
C33_StaysConnectedAfterOutage ==
    [][(IsConnected /\ ~IsConnected') => (outages' > outages \/ (closes' # closes \/ cpc' # cpc))]_vars

\* C34: CLOSED is terminal: once Close() has returned, no step installs a
\* new connection or channel and IsConnected() stays false, also when a
\* reconnect routine was already running when Close() was called.
C34_ClosedIsTerminal ==
    [][(\E c \in Closers : closes[c] > 0 /\ cpc[c] = "idle") => (conn' = conn /\ channel' = channel /\ ~IsConnected')]_vars

\* C36: consuming = TRUE implies a consumeLoop goroutine that is running and
\* has not returned on the stop signal, also when StartConsuming is called
\* after Close().
C36_ConsumingHasLoop ==
    consuming => \E l \in Loops : lpc[l] \notin {"none", "done"}

\* The deliveries of message id the broker routed to the dead-letter
\* exchange: the main queue is declared with x-dead-letter-exchange =
\* DLXExchangeName, so the broker dead-letters every delivery whose
\* Reject(false) reached it.
DeadLettered(id) ==
    {i \in DOMAIN mtrace[id] :
        /\ qc.DLXExchangeName # ""
        /\ mtrace[id][i].op \in {"reject", "reject_final"}
        /\ mtrace[id][i].ok}

\* C35: a message reaches the dead-letter exchange only when its retry
\* budget is exhausted: every dead-lettered delivery is the final reject, a
\* message that was acknowledged has no dead-lettered copy, and no delivery
\* is both dead-lettered and republished to the main exchange.
C35_DeadLetterOnlyWhenExhausted ==
    \A id \in MsgIds :
        /\ \A i \in DeadLettered(id) : mtrace[id][i].op = "reject_final"
        /\ Count(mtrace[id], "ack") > 0 => DeadLettered(id) = {}
        /\ \A i \in DeadLettered(id) :
              ~(i < Len(mtrace[id]) /\ mtrace[id][i + 1].op = "publish" /\ mtrace[id][i + 1].ok)

\* C38: the message republished after a handler failure carries exactly the
\* headers x-retry-count, x-last-error and x-last-retry: the new table and
\* the message that reaches the queue hold these three keys, written anew,
\* and neither the publisher's headers nor the retry count of the delivery
\* that failed, and no step of processMessage changes the entries of the
\* delivery it processes.
C38_RepublishCarriesOnlyRetryHeaders ==
    /\ [][\A r \in retries' \ retries :
            /\ {e[1] : e \in Entries(r)} = {"x-retry-count", "x-last-error", "x-last-retry"}
            /\ r.extra = NewRetryExtra
            /\ \A t \in tasks \ tasks' :
                  t.id = r.id => (Entries(t) \ NewRetryExtra) \cap Entries(r) = {}]_vars
    /\ [][\A m \in queue' \ queue :
            /\ {e[1] : e \in Entries(m)} = {"x-retry-count", "x-last-error", "x-last-retry"}
            /\ m.extra \cap CustomHeaders = {}]_vars
    /\ [][\A t \in tasks : \A u \in tasks' : u.id = t.id => Entries(u) = Entries(t)]_vars

\* A message that came with a publisher's header is in the queue after its
\* second republish.
C38_Witness ==
    \E m \in queue :
        /\ m.hdr = GoInt32(2)
        /\ {e[1] : e \in Entries(m)} = {"x-retry-count", "x-last-error", "x-last-retry"}
        /\ Count(mtrace[m.id], "publish") = 2
        /\ mtrace[m.id][1].rc = 0

\* C31, as claimed: a reconnect routine holds the write lock only for the
\* pointer swap, in particular not while it closes the old connection and
\* channel.
C31_WriteLockOnlyForSwap ==
    \A w \in Watchers : muWriter = w => At(w).sec = "swap"

\* C31, as the code has it: a reconnect routine holds the write lock in two
\* short sections, while it closes the old channel and connection and while
\* it swaps the pointers, and never while it sleeps, dials, opens the
\* channel or runs the setup; a reader that is blocked is blocked by a
\* goroutine that is in none of these long parts.
C31_WriteLockForCloseAndSwap ==
    /\ \A w \in Watchers : muWriter = w => At(w).sec \in {"close", "swap"}
    /\ \A w \in Watchers :
          (Inside(w) /\ At(w).sec \in {"sleep", "attempt"}) => (muWriter # w /\ w \notin muWaiting)
    /\ \A g \in LockGoroutines :
          (Inside(g) /\ At(g).op = "RLock" /\ (muWriter # "none" \/ muWaiting # {})) =>
              \A h \in {muWriter} \cup muWaiting :
                  h # "none" => At(h).sec \notin {"sleep", "attempt"}

\* A reader is blocked while a reconnect routine closes the old pair under
\* the write lock, and the other reconnect routine is asleep.
C31_Witness ==
    \E w \in Watchers : \E v \in Watchers \ {w} :
        /\ muWriter = w
        /\ At(w) = LockOp("step", "close", {3})
        /\ Inside(v) /\ At(v).sec = "sleep"
        /\ (Inside("IsConnected") /\ At("IsConnected").op = "RLock" /\ (muWriter # "none" \/ muWaiting # {}))

\* Goroutine g can take a step.
CanRun(g) ==
    \/ ENABLED LockAcquire(g)
    \/ ENABLED RLockAcquire(g)
    \/ ENABLED Unlock(g)
    \/ ENABLED RUnlock(g)
    \/ ENABLED LockStep(g)

\* C37: no interleaving of the routines deadlocks on the lock: a routine
\* that returned holds nothing, on every path; a goroutine that holds the
\* lock is not waiting for it; an Unlock or RUnlock releases what its
\* caller holds; and whenever a goroutine is blocked in Lock or RLock, a
\* goroutine that holds the lock, or a writer that waits in front of it, can
\* take a step.
C37_NoLockDeadlock ==
    /\ \A g \in LockGoroutines : ~Inside(g) => ~Holds(g) /\ g \notin muWaiting
    /\ \A g \in LockGoroutines :
          (Inside(g) /\ Holds(g)) => (At(g).op \notin {"Lock", "RLock"} /\ CanRun(g))
    /\ \A g \in LockGoroutines :
          /\ (Inside(g) /\ At(g).op = "Unlock") => muWriter = g
          /\ (Inside(g) /\ At(g).op = "RUnlock") => g \in muReaders
    /\ \A g \in LockGoroutines :
          (Inside(g) /\ At(g).op \in {"Lock", "RLock"} /\ ~CanRun(g)) =>
              \E h \in LockGoroutines \ {g} : (Holds(h) \/ h \in muWaiting) /\ CanRun(h)

\* A writer waits behind two readers while another writer waits too, and a
\* new reader is blocked behind them.
C37_Witness ==
    /\ kind = "consumer"
    /\ muReaders = {"consumeLoop", "processMessage"}
    /\ Cardinality(muWaiting) >= 2
    /\ "Close" \in muWaiting
    /\ (Inside("IsConnected") /\ At("IsConnected").op = "RLock" /\ (muWriter # "none" \/ muWaiting # {}))

====
